---------------------------- MODULE Spec2Model ----------------------------
(***************************************************************************)
(* Model of the lclip short-form video editor: the EditorState scene       *)
(* model with snapshot undo/redo, the editor's cut/split handlers, the     *)
(* Timeline drag gestures, and the duration used by editor and export.     *)
(*                                                                         *)
(* Time is counted in ticks of 1/150 s, so that with the default project   *)
(* rate (30 fps) and the default timeline zoom (50 px/s) one frame is      *)
(* 5 ticks and one screen pixel is 3 ticks.  Timeline times are integers   *)
(* of ticks; source times, which a split divides, are exact fractions.     *)
(***************************************************************************)
EXTENDS Integers, Sequences, FiniteSets, TLC

VARIABLES
  loaded,               \* _project !== null
  layers,               \* _project.layers
  sourceVideoDuration,  \* _project.sourceVideoDuration (0 = unset)
  selectedClipId,       \* _selectedClipId
  selectedLayerId,      \* _selectedLayerId
  undoStack,            \* _undoStack
  redoStack,            \* _redoStack
  currentTime,          \* _currentTime
  activeTool,           \* _activeTool
  nextId,               \* number of ids genId() has handed out
  drag,                 \* Timeline: drag and _isDragging
  previewDrag,          \* Player: previewDrag
  props,                \* Properties: the clip whose inputs are shown, and _snapped
  rightClickInfo,       \* window.rightClickInfo
  hist,                 \* history of the last operation (observation only)
  plan,                 \* export: the filter graph last compiled, or the frame last drawn
  srv,                  \* server exportVideo(): where the run is, its processes and files
  cli,                  \* client exportVideo(): where the run is, its files and listeners
  db,                   \* the project record's export fields, and what was written to them
  parked,               \* a second export run of the project, while the other run has its turn
  player                \* Player: the play loop, its frame callbacks and the video element

\* the editor in the browser
editorVars == << loaded, layers, sourceVideoDuration, selectedClipId, selectedLayerId,
                 undoStack, redoStack, currentTime, activeTool, nextId,
                 drag, previewDrag, props, rightClickInfo, hist >>

\* the two exporters and the export route
exportVars == << plan, srv, cli, db, parked >>

vars == << editorVars, exportVars, player >>

-----------------------------------------------------------------------------
(* JavaScript values.  A numeric property holds a finite number n/d, NaN,  *)
(* null, or is undefined (absent).                                         *)

Num(n, d) == [k |-> "num", n |-> n, d |-> d]
IntV(i) == Num(i, 1)
NaN == [k |-> "nan", n |-> 0, d |-> 1]
NullV == [k |-> "null", n |-> 0, d |-> 1]
Undef == [k |-> "undef", n |-> 0, d |-> 1]

NoId == "null"

\* JSON.parse(JSON.stringify(v)) on one numeric property: NaN is written as
\* null; an undefined property is dropped and so still reads as undefined.
JsonValue(v) == IF v.k = "nan" THEN NullV ELSE v

JsonClip(c) ==
  [c EXCEPT !.x = JsonValue(c.x),
            !.srcStart = JsonValue(c.srcStart),
            !.srcEnd = JsonValue(c.srcEnd)]

JsonLayer(l) == [l EXCEPT !.clips = [i \in DOMAIN l.clips |-> JsonClip(l.clips[i])]]

\* JSON.parse(JSON.stringify(_project.layers))
JsonClone(ls) == [i \in DOMAIN ls |-> JsonLayer(ls[i])]

-----------------------------------------------------------------------------
(* Sequence helpers standing for Array.prototype methods.                  *)

\* index of the first element with that id, 0 when there is none
IndexOfId(s, id) ==
  IF \E i \in DOMAIN s : s[i].id = id
  THEN CHOOSE i \in DOMAIN s : s[i].id = id /\ \A j \in 1..(i - 1) : s[j].id # id
  ELSE 0


-----------------------------------------------------------------------------
(* EditorState: the scene model.  Its functions are operators on the       *)
(* record m of its private variables, so that a handler that calls several *)
(* of them in a row is their composition.                                  *)

MAX_HISTORY == 50

Model ==
  [loaded |-> loaded, layers |-> layers, undo |-> undoStack, redo |-> redoStack,
   selClip |-> selectedClipId, selLayer |-> selectedLayerId]

\* { ...a, ...b } for objects with the model's fixed set of properties
Merge(a, b) == [f \in DOMAIN a |-> IF f \in DOMAIN b THEN b[f] ELSE a[f]]

\* index of the layer in _project.layers, 0 for "not found" (also without project)
getLayer(m, layerId) == IF ~m.loaded THEN 0 ELSE IndexOfId(m.layers, layerId)

\* << layer index, clip index >>, << 0, 0 >> for "not found"
getClip(m, layerId, clipId) ==
  LET li == getLayer(m, layerId) IN
  IF li = 0 THEN << 0, 0 >>
  ELSE LET ci == IndexOfId(m.layers[li].clips, clipId) IN
       IF ci = 0 THEN << 0, 0 >> ELSE << li, ci >>

selectClip(m, layerId, clipId) == [m EXCEPT !.selLayer = layerId, !.selClip = clipId]

updateClip(m, layerId, clipId, updates) ==
  LET at == getClip(m, layerId, clipId) IN
  IF at[1] = 0 THEN m
  ELSE [m EXCEPT !.layers[at[1]].clips[at[2]] = Merge(@, updates)]

addClip(m, layerId, clip) ==
  LET li == getLayer(m, layerId) IN
  IF li = 0 THEN m ELSE [m EXCEPT !.layers[li].clips = Append(@, clip)]

\* the selection-clearing that leaves the selected layer in place
removeClip_KeepLayer(m, layerId, clipId) ==
  LET li == getLayer(m, layerId) IN
  IF li = 0 THEN m
  ELSE [m EXCEPT !.layers[li].clips = SelectSeq(@, LAMBDA c : c.id # clipId),
                 !.selClip = IF m.selClip = clipId THEN NoId ELSE @]

removeClip(m, layerId, clipId) ==
  LET li == getLayer(m, layerId) IN
  IF li = 0 THEN m
  ELSE LET cleared == m.selClip = clipId IN
       [m EXCEPT !.layers[li].clips = SelectSeq(@, LAMBDA c : c.id # clipId),
                 !.selClip = IF cleared THEN NoId ELSE @,
                 !.selLayer = IF cleared THEN NoId ELSE @]

addLayer(m, layer) == IF ~m.loaded THEN m ELSE [m EXCEPT !.layers = Append(@, layer)]

removeLayer(m, layerId) ==
  IF ~m.loaded THEN m
  ELSE [m EXCEPT !.layers = SelectSeq(@, LAMBDA l : l.id # layerId)]

updateLayer(m, layerId, updates) ==
  LET li == getLayer(m, layerId) IN
  IF li = 0 THEN m ELSE [m EXCEPT !.layers[li] = Merge(@, updates)]

\* saveSnapshot() that leaves the redo stack alone
saveSnapshot_KeepRedo(m) ==
  IF ~m.loaded THEN m
  ELSE LET pushed == Append(m.undo, JsonClone(m.layers))
       IN  [m EXCEPT !.undo = IF Len(pushed) > MAX_HISTORY THEN Tail(pushed) ELSE pushed]

\* saveSnapshot() that drops the newest entry of a full stack, not the oldest
saveSnapshot_DropNewest(m) ==
  IF ~m.loaded THEN m
  ELSE LET pushed == Append(m.undo, JsonClone(m.layers))
       IN  [m EXCEPT !.undo = IF Len(pushed) > MAX_HISTORY
                               THEN SubSeq(pushed, 1, MAX_HISTORY) ELSE pushed,
                     !.redo = << >>]

saveSnapshot(m) ==
  IF ~m.loaded THEN m
  ELSE LET pushed == Append(m.undo, JsonClone(m.layers)) IN
       [m EXCEPT !.undo = IF Len(pushed) > MAX_HISTORY THEN Tail(pushed) ELSE pushed,
                 !.redo = << >>]

undo(m) ==
  IF ~m.loaded \/ Len(m.undo) = 0 THEN m
  ELSE [m EXCEPT !.redo = Append(@, JsonClone(m.layers)),
                 !.layers = m.undo[Len(m.undo)],
                 !.undo = SubSeq(@, 1, Len(@) - 1),
                 !.selClip = NoId, !.selLayer = NoId]

redo(m) ==
  IF ~m.loaded \/ Len(m.redo) = 0 THEN m
  ELSE [m EXCEPT !.undo = Append(@, JsonClone(m.layers)),
                 !.layers = m.redo[Len(m.redo)],
                 !.redo = SubSeq(@, 1, Len(@) - 1),
                 !.selClip = NoId, !.selLayer = NoId]

canUndo(m) == Len(m.undo) > 0
canRedo(m) == Len(m.redo) > 0

\* the remapping that numbers the list from its top: first listed lowest
reorderLayers_Ascending(m, orderedIds) ==
  LET N == Len(orderedIds)
      last(id) == CHOOSE i \in 1..N : orderedIds[i] = id /\ \A j \in (i + 1)..N : orderedIds[j] # id
  IN IF ~m.loaded THEN m
     ELSE [m EXCEPT !.layers =
             [li \in DOMAIN m.layers |->
                IF \E i \in 1..N : orderedIds[i] = m.layers[li].id
                THEN [m.layers[li] EXCEPT !.order = last(m.layers[li].id) - 1]
                ELSE m.layers[li]]]

\* orderedIds.forEach((id, i) => layer.order = N - 1 - i): a later entry of the
\* same id overwrites an earlier one; i is 0-based, the sequence is 1-based.
reorderLayers(m, orderedIds) ==
  LET N == Len(orderedIds)
      last(id) == CHOOSE i \in 1..N : orderedIds[i] = id /\ \A j \in (i + 1)..N : orderedIds[j] # id
  IN IF ~m.loaded THEN m
     ELSE [m EXCEPT !.layers =
             [li \in DOMAIN m.layers |->
                IF \E i \in 1..N : orderedIds[i] = m.layers[li].id
                THEN [m.layers[li] EXCEPT !.order = N - last(m.layers[li].id)]
                ELSE m.layers[li]]]

\* setProject(p): the selection is not touched
setProject(m, p) == [m EXCEPT !.loaded = TRUE, !.layers = p, !.undo = << >>, !.redo = << >>]

\* getTotalDuration(): the fold starts at 0 and "max || fallback" takes the
\* fallback whenever the fold ends at 0
RECURSIVE FoldMaxEnd(_, _)
FoldMaxEnd(clips, max) ==
  IF clips = << >> THEN max
  ELSE FoldMaxEnd(Tail(clips), IF Head(clips).endTime > max THEN Head(clips).endTime ELSE max)

RECURSIVE FoldLayers(_, _)
FoldLayers(ls, max) ==
  IF ls = << >> THEN max ELSE FoldLayers(Tail(ls), FoldMaxEnd(Head(ls).clips, max))

FPS == 30
PX_PER_SEC == 50
\* ticks per second: the least unit in which a frame and a pixel are whole
TicksPerSec == 5 * FPS
FrameTicks == TicksPerSec \div FPS
PxTicks == TicksPerSec \div PX_PER_SEC

DEFAULT_DURATION == 60 * TicksPerSec

getTotalDuration(isLoaded, ls, srcDur) ==
  IF ~isLoaded THEN 0
  ELSE LET max == FoldLayers(ls, 0) IN
       IF max # 0 THEN max ELSE IF srcDur # 0 THEN srcDur ELSE DEFAULT_DURATION

-----------------------------------------------------------------------------
(* Projects.  A clip carries the properties the modelled code reads; a     *)
(* property a clip type does not have is undefined.                        *)

VideoClip(id, s, e, ss, se, filtered) ==
  [id |-> id, type |-> "video", startTime |-> s, endTime |-> e,
   srcStart |-> IntV(ss), srcEnd |-> IntV(se), isFiltered |-> filtered, x |-> IntV(0)]

SubtitleClip(id, s, e) ==
  [id |-> id, type |-> "subtitle", startTime |-> s, endTime |-> e,
   srcStart |-> Undef, srcEnd |-> Undef, isFiltered |-> FALSE, x |-> IntV(540)]

AudioClip(id, s, e) ==
  [id |-> id, type |-> "audio", startTime |-> s, endTime |-> e,
   srcStart |-> Undef, srcEnd |-> Undef, isFiltered |-> FALSE, x |-> Undef]

Layer(id, type, order, visible, clips) ==
  [id |-> id, type |-> type, order |-> order, visible |-> visible, clips |-> clips]

\* genId(): the k-th id handed out; ids are never handed out twice
NewId(k) == "n" \o ToString(k)

\* a 2 s source as one clip, with a caption over its first second
DefaultProject ==
  << Layer("L1", "video", 0, TRUE, << VideoClip("c1", 0, 300, 0, 300, FALSE) >>),
     Layer("L2", "subtitle", 1, TRUE, << SubtitleClip("c2", 0, 150) >>) >>

\* two replay-filtered segments 0.5 s apart, with a channel caption over both
RoflProject ==
  << Layer("L1", "video", 0, TRUE,
           << VideoClip("c1", 0, 150, 30, 180, TRUE),
              VideoClip("c3", 225, 300, 200, 275, TRUE) >>),
     Layer("L2", "subtitle", 1, TRUE, << SubtitleClip("c2", 0, 375) >>) >>

SOURCE_DURATION == 2 * TicksPerSec

-----------------------------------------------------------------------------
(* History variable.  It records which operation ran last and the values   *)
(* the properties compare against; no operation reads it, except for the   *)
(* counters that bound a run.                                              *)

\* Timeline.drag === null
NoDrag ==
  [active |-> FALSE, type |-> "none", layerId |-> NoId, clipId |-> NoId,
   currentLayerId |-> NoId, origStart |-> 0, origEnd |-> 0,
   origSrcStart |-> NullV, origSrcEnd |-> NullV, targetNewLayer |-> FALSE]

\* Player.previewDrag === null
NoPreviewDrag ==
  [active |-> FALSE, type |-> "none", layerId |-> NoId, clipId |-> NoId, origX |-> NullV]

\* the Properties panel showing its default text
NoProps == [layerId |-> NoId, clipId |-> NoId, snapped |-> FALSE, focused |-> FALSE]

NoArg == [layerId |-> NoId, clipId |-> NoId, t |-> 0]

\* window.rightClickInfo === null
NoRightClick == [layerId |-> NoId, clipId |-> NoId]

NoGesture ==
  /\ drag = NoDrag
  /\ previewDrag = NoPreviewDrag
  /\ props = NoProps
  /\ rightClickInfo = NoRightClick

\* nothing compiled or drawn, no export run, no export field written
NoPlan == [kind |-> "none"]

\* no call of the server's exportVideo() yet
NoServerRun ==
  [pc |-> "idle", clips |-> << >>, probes |-> << >>, madeDir |-> FALSE, tempDir |-> FALSE,
   procs |-> {}, started |-> << >>, tempClips |-> 0, composite |-> FALSE, events |-> 0,
   calls |-> << >>, outcome |-> "pending", error |-> ""]

\* no call of ClientExport.exportVideo() yet: an empty virtual filesystem
NoClientRun ==
  [pc |-> "idle", clips |-> << >>, i |-> 0, a |-> 0, headers |-> << >>, fetched |-> << >>,
   scaledClips |-> << >>, files |-> {}, listeners |-> {}, outcome |-> "pending",
   error |-> ""]

\* a project that was never exported; log: the writes of the last run
NoExportRecord ==
  [exportStatus |-> "idle", exportFile |-> "null", exportProgress |-> 0,
   exportError |-> "", lastProgressWrite |-> 0, log |-> << >>, times |-> << >>]

\* no second run of the server's export
NoParked == [run |-> NoServerRun, lastProgressWrite |-> 0, posts |-> 0]

NoExport ==
  /\ plan = NoPlan
  /\ srv = NoServerRun
  /\ cli = NoClientRun
  /\ db = NoExportRecord
  /\ parked = NoParked

\* the video element before a source is set
NoVideo == [src |-> "", currentTime |-> 0, paused |-> TRUE, ready |-> FALSE]

\* no frame of the play loop has run yet
NoFrame ==
  [how |-> "none", clip |-> "null", time |-> 0, boundary |-> FALSE, next |-> "null",
   srcSet |-> FALSE, set |-> FALSE]

\* the player after init(): paused, no frame asked for, no source in the
\* video element; pending: the frame callbacks asked for and not yet called
\* or cancelled; frames: the ids requestAnimationFrame has handed out; now:
\* the time of the last frame; last: what the last frame of the loop did
NoPlayback ==
  [playing |-> FALSE, animFrameId |-> 0, pending |-> {}, frames |-> 0, now |-> 0,
   lastTimestamp |-> 0, lastBoundaryClipId |-> "null", video |-> NoVideo, last |-> NoFrame]

NoPre == [valid |-> FALSE, m |-> [loaded |-> FALSE, layers |-> << >>, undo |-> << >>,
                                  redo |-> << >>, selClip |-> NoId, selLayer |-> NoId]]
Pre(m) == [valid |-> TRUE, m |-> m]

\* no selectionChanged event was emitted
NoEmit == [emitted |-> FALSE, layerId |-> NoId, clipId |-> NoId]

\* emit('selectionChanged', { layerId, clipId })
Emit(layerId, clipId) == [emitted |-> TRUE, layerId |-> layerId, clipId |-> clipId]

\* emit: the selectionChanged event of the last operation; ids: the list
\* passed to reorderLayers; start: the model before the user's gesture;
\* moved: the pointer has moved since the button went down
HistInit ==
  [op |-> "init", muts |-> 0,
   clean |-> FALSE, wasClean |-> FALSE, snapAt |-> << >>, lostRedo |-> FALSE,
   pre |-> NoPre, prevPre |-> NoPre,
   n |-> 0, base |-> << >>, arg |-> NoArg, result |-> NullV,
   emit |-> NoEmit, ids |-> << >>, start |-> NoPre, moved |-> FALSE]

\* an operation other than saveSnapshot, undo and redo
HistOther(name, isMutation) ==
  [hist EXCEPT !.op = name,
               !.muts = IF isMutation THEN @ + 1 ELSE @,
               !.wasClean = FALSE, !.lostRedo = FALSE, !.pre = NoPre, !.prevPre = NoPre,
               !.arg = NoArg, !.emit = NoEmit, !.ids = << >>]

\* an operation of the model whose arguments and state before are kept
HistCall(name, isMutation, layerId, clipId, ids, emit) ==
  [HistOther(name, isMutation) EXCEPT !.pre = Pre(Model),
                                      !.arg = [layerId |-> layerId, clipId |-> clipId, t |-> 0],
                                      !.ids = ids, !.emit = emit]

HistSnapshot ==
  [hist EXCEPT !.op = "saveSnapshot",
               !.clean = loaded, !.wasClean = FALSE,
               !.snapAt = IF loaded THEN layers ELSE << >>,
               !.lostRedo = Len(redoStack) > 0,
               !.pre = IF Len(undoStack) = MAX_HISTORY THEN Pre(Model) ELSE NoPre,
               !.prevPre = NoPre, !.arg = NoArg, !.emit = NoEmit, !.ids = << >>]

HistUndoRedo(name) ==
  [hist EXCEPT !.op = name,
               !.clean = FALSE, !.wasClean = name = "undo" /\ hist.clean,
               !.lostRedo = name = "redo" /\ hist.op = "saveSnapshot" /\ hist.lostRedo,
               !.pre = Pre(Model),
               !.prevPre = IF name = "redo" /\ hist.op = "undo" THEN hist.pre ELSE NoPre,
               !.arg = NoArg, !.ids = << >>,
               !.emit = IF loaded /\ Len(IF name = "undo" THEN undoStack ELSE redoStack) > 0
                        THEN Emit(NoId, NoId) ELSE NoEmit]

Commit(m) ==
  /\ loaded' = m.loaded
  /\ layers' = m.layers
  /\ undoStack' = m.undo
  /\ redoStack' = m.redo
  /\ selectedClipId' = m.selClip
  /\ selectedLayerId' = m.selLayer

InitEditor ==
  /\ loaded = FALSE
  /\ layers = << >>
  /\ sourceVideoDuration = 0
  /\ selectedClipId = NoId
  /\ selectedLayerId = NoId
  /\ undoStack = << >>
  /\ redoStack = << >>
  /\ currentTime = 0
  /\ activeTool = "select"
  /\ nextId = 0
  /\ NoGesture
  /\ NoExport
  /\ player = NoPlayback
  /\ hist = HistInit

-----------------------------------------------------------------------------
(* SpecModel: the EditorState functions called in any order, no listener   *)
(* being registered for its events.                                        *)

MaxMuts == 1
MaxSnapshots == 1

LayerIds(ls) == { ls[i].id : i \in DOMAIN ls }
ClipIds(ls) == UNION { { ls[i].clips[j].id : j \in DOMAIN ls[i].clips } : i \in DOMAIN ls }

\* ids a caller may pass: those present, and one that is not
SomeLayerIds == LayerIds(layers) \cup { "L9" }
SomeClipIds == ClipIds(layers) \cup { "c9" }

\* what a caller selects: a clip with its layer, or nothing
Selections ==
  { << NoId, NoId >> } \cup
  UNION { { << layers[i].id, layers[i].clips[j].id >> : j \in DOMAIN layers[i].clips } :
          i \in DOMAIN layers }

ClipUpdates == { [x |-> NaN], [x |-> IntV(7)], [endTime |-> 0] }

LayerUpdates == { [visible |-> FALSE], [visible |-> TRUE] }

\* the ids top to bottom as they are now, reversed, and a list naming one layer
OrderedIdLists ==
  LET ids == [i \in DOMAIN layers |-> layers[i].id] IN
  { ids, [i \in DOMAIN ids |-> ids[Len(ids) + 1 - i]] } \cup { << id >> : id \in LayerIds(layers) }

Others == UNCHANGED << sourceVideoDuration, exportVars, currentTime, activeTool, drag, previewDrag, props, rightClickInfo, player >>

MSetProject ==
  /\ Commit(setProject(Model, DefaultProject))
  /\ sourceVideoDuration' = SOURCE_DURATION
  /\ hist' = [HistOther("setProject", FALSE) EXCEPT !.clean = FALSE]
  /\ UNCHANGED << exportVars, currentTime, activeTool, nextId, drag, previewDrag, props, rightClickInfo, player >>

MSaveSnapshot ==
  /\ Len(undoStack) < MaxSnapshots
  /\ Commit(saveSnapshot(Model))
  /\ hist' = HistSnapshot
  /\ Others /\ UNCHANGED nextId

MUndo ==
  /\ Commit(undo(Model))
  /\ hist' = HistUndoRedo("undo")
  /\ Others /\ UNCHANGED nextId

MRedo ==
  /\ Commit(redo(Model))
  /\ hist' = HistUndoRedo("redo")
  /\ Others /\ UNCHANGED nextId

MSelectClip ==
  /\ \E sel \in Selections :
       /\ Commit(selectClip(Model, sel[1], sel[2]))
       /\ hist' = HistCall("selectClip", FALSE, sel[1], sel[2], << >>, Emit(sel[1], sel[2]))
  /\ Others /\ UNCHANGED nextId

MUpdateClip ==
  /\ hist.muts < MaxMuts
  /\ \E l \in SomeLayerIds, c \in SomeClipIds, u \in ClipUpdates :
       Commit(updateClip(Model, l, c, u))
  /\ hist' = HistOther("other", TRUE)
  /\ Others /\ UNCHANGED nextId

MAddClip ==
  /\ hist.muts < MaxMuts
  /\ \E l \in SomeLayerIds :
       Commit(addClip(Model, l, SubtitleClip(NewId(nextId + 1), 150, 450)))
  /\ nextId' = nextId + 1
  /\ hist' = HistOther("other", TRUE)
  /\ Others

MRemoveClip ==
  /\ hist.muts < MaxMuts
  /\ \E l \in SomeLayerIds, c \in SomeClipIds :
       /\ Commit(removeClip(Model, l, c))
       /\ hist' = HistCall("removeClip", TRUE, l, c, << >>,
                           IF getLayer(Model, l) = 0 THEN NoEmit ELSE Emit(NoId, NoId))
  /\ Others /\ UNCHANGED nextId

MAddLayer ==
  /\ hist.muts < MaxMuts
  /\ Commit(addLayer(Model, Layer(NewId(nextId + 1), "audio", Len(layers), TRUE, << >>)))
  /\ nextId' = nextId + 1
  /\ hist' = HistOther("other", TRUE)
  /\ Others

MRemoveLayer ==
  /\ hist.muts < MaxMuts
  /\ \E l \in SomeLayerIds : Commit(removeLayer(Model, l))
  /\ hist' = HistOther("other", TRUE)
  /\ Others /\ UNCHANGED nextId

MUpdateLayer ==
  /\ hist.muts < MaxMuts
  /\ \E l \in SomeLayerIds, u \in LayerUpdates : Commit(updateLayer(Model, l, u))
  /\ hist' = HistOther("other", TRUE)
  /\ Others /\ UNCHANGED nextId

MReorderLayers ==
  /\ hist.muts < MaxMuts
  /\ \E ids \in OrderedIdLists :
       /\ Commit(reorderLayers(Model, ids))
       /\ hist' = HistCall("reorderLayers", TRUE, NoId, NoId, ids, NoEmit)
  /\ Others /\ UNCHANGED nextId

NextModel ==
  \/ MSetProject \/ MSaveSnapshot \/ MUndo \/ MRedo \/ MSelectClip
  \/ MUpdateClip \/ MAddClip \/ MRemoveClip
  \/ MAddLayer \/ MRemoveLayer \/ MUpdateLayer \/ MReorderLayers

SpecModel == InitEditor /\ [][NextModel]_vars

-----------------------------------------------------------------------------
(* SpecHistory: snapshotted edits, undo, redo and setProject in any order  *)
(* on a loaded project, deep enough to fill the undo stack.  An edit is    *)
(* what a drag in the preview does: saveSnapshot() at the press, then      *)
(* updateClip() moving the clip one pixel to the right.                    *)

MaxEdits == 52

InitHistory ==
  /\ loaded = TRUE
  /\ layers = DefaultProject
  /\ sourceVideoDuration = SOURCE_DURATION
  /\ selectedClipId = NoId
  /\ selectedLayerId = NoId
  /\ undoStack = << >>
  /\ redoStack = << >>
  /\ currentTime = 0
  /\ activeTool = "select"
  /\ nextId = 0
  /\ NoGesture
  /\ NoExport
  /\ player = NoPlayback
  /\ hist = HistInit

HistoryOp(name) == [HistInit EXCEPT !.op = name]

HEdit ==
  /\ layers[1].clips[1].x.n < MaxEdits
  /\ Commit(updateClip(saveSnapshot(Model), "L1", "c1",
                       [x |-> IntV(layers[1].clips[1].x.n + 1)]))
  /\ hist' = [HistoryOp("edit") EXCEPT
                !.pre = IF Len(undoStack) = MAX_HISTORY THEN Pre(Model) ELSE NoPre]
  /\ Others /\ UNCHANGED nextId

HUndo ==
  /\ Commit(undo(Model))
  /\ hist' = HistoryOp("undo")
  /\ Others /\ UNCHANGED nextId

HRedo ==
  /\ Commit(redo(Model))
  /\ hist' = HistoryOp("redo")
  /\ Others /\ UNCHANGED nextId

HSetProject ==
  /\ Commit(setProject(Model, DefaultProject))
  /\ hist' = HistoryOp("setProject")
  /\ Others /\ UNCHANGED nextId

NextHistory == HEdit \/ HUndo \/ HRedo \/ HSetProject

SpecHistory == InitHistory /\ [][NextHistory]_vars

-----------------------------------------------------------------------------
(* Arithmetic on JavaScript numbers.  Finite numbers are exact fractions   *)
(* in lowest terms; an operation with a NaN operand gives NaN.             *)

Abs(i) == IF i < 0 THEN -i ELSE i

RECURSIVE Gcd(_, _)
Gcd(a, b) == IF b = 0 THEN a ELSE Gcd(b, a % b)

\* n/d in lowest terms, d # 0
Rat(n, d) ==
  LET g == Gcd(Abs(n), Abs(d))
      s == IF d < 0 THEN -1 ELSE 1
  IN  Num((s * n) \div g, (s * d) \div g)

IsNum(v) == v.k = "num"

Max1(i) == IF i < 1 THEN 1 ELSE i

\* v || dflt: dflt replaces undefined, null, NaN and 0
OrElse(v, dflt) == IF IsNum(v) /\ v.n # 0 THEN v ELSE dflt

\* v ?? dflt: dflt replaces undefined and null
Nullish(v, dflt) == IF v.k \in { "null", "undef" } THEN dflt ELSE v

\* the denominators are divided by their common factor before the cross
\* products are taken, which keeps the intermediate integers small
NumAdd(a, b) ==
  IF IsNum(a) /\ IsNum(b)
  THEN LET g == Gcd(a.d, b.d)
       IN  Rat(a.n * (b.d \div g) + b.n * (a.d \div g), (a.d \div g) * b.d)
  ELSE NaN

NumSub(a, b) ==
  IF IsNum(a) /\ IsNum(b)
  THEN LET g == Gcd(a.d, b.d)
       IN  Rat(a.n * (b.d \div g) - b.n * (a.d \div g), (a.d \div g) * b.d)
  ELSE NaN

NumMul(a, b) ==
  IF IsNum(a) /\ IsNum(b)
  THEN LET g1 == Max1(Gcd(Abs(a.n), b.d))
           g2 == Max1(Gcd(Abs(b.n), a.d))
       IN  Rat((a.n \div g1) * (b.n \div g2), (a.d \div g2) * (b.d \div g1))
  ELSE NaN

NumLess(a, b) ==
  /\ IsNum(a) /\ IsNum(b)
  /\ LET g == Gcd(a.d, b.d) IN a.n * (b.d \div g) < b.n * (a.d \div g)

\* Math.min(a, b)
NumMin(a, b) ==
  IF IsNum(a) /\ IsNum(b) THEN (IF NumLess(b, a) THEN b ELSE a) ELSE NaN

Min(a, b) == IF b < a THEN b ELSE a
Max(a, b) == IF b > a THEN b ELSE a

\* Math.round(v): halves go up
NumRound(v) == IF IsNum(v) THEN IntV((2 * v.n + v.d) \div (2 * v.d)) ELSE NaN

-----------------------------------------------------------------------------
(* Timeline helpers: frame and edge snapping, display order, split.        *)

SNAP_PX == 12

\* SNAP_PX / pxPerSec
SnapThreshold == SNAP_PX * PxTicks

\* minDur = 1 / getFps()
MinDur == FrameTicks

\* the source end assumed when the project names no source duration: 9999 s
MAX_SRC_END == 9999 * TicksPerSec

\* snapFrame(t) = Math.round(t * fps) / fps, for t = v.n / v.d ticks
snapFrame(v) == ((2 * v.n + FrameTicks * v.d) \div (2 * FrameTicks * v.d)) * FrameTicks

RECURSIVE Flatten(_)
Flatten(ss) == IF ss = << >> THEN << >> ELSE Head(ss) \o Flatten(Tail(ss))

\* every clip of every layer, in iteration order
ClipRefs(ls) ==
  Flatten([i \in DOMAIN ls |->
            [j \in DOMAIN ls[i].clips |->
              [layerId |-> ls[i].id, clipId |-> ls[i].clips[j].id, li |-> i, ci |-> j]]])

ClipAt(ls, ref) == ls[ref.li].clips[ref.ci]

ClipCount(ls) == Len(ClipRefs(ls))

\* getSnapEdges(excludeClipId): start and end of every other clip
getSnapEdges(m, excludeClipId) ==
  IF ~m.loaded THEN << >>
  ELSE LET refs == SelectSeq(ClipRefs(m.layers), LAMBDA r : r.clipId # excludeClipId)
       IN  Flatten([i \in DOMAIN refs |->
                     << ClipAt(m.layers, refs[i]).startTime,
                        ClipAt(m.layers, refs[i]).endTime >>])

RECURSIVE SnapFold(_, _, _, _)
SnapFold(t, edges, best, bestDist) ==
  IF edges = << >> THEN best
  ELSE LET edge == IntV(Head(edges))
           diff == NumSub(t, edge)
           dist == IF diff.n < 0 THEN NumSub(edge, t) ELSE diff
       IN  IF NumLess(dist, bestDist)
           THEN SnapFold(t, Tail(edges), edge, dist)
           ELSE SnapFold(t, Tail(edges), best, bestDist)

\* snapToEdges(t, edges): the first nearest edge closer than the threshold, else t
snapToEdges(t, edges) == SnapFold(t, edges, t, IntV(SnapThreshold))

\* position of layer i in [...layers].sort((a, b) => b.order - a.order), from 1
DisplayPos(ls, i) ==
  1 + Cardinality({ j \in DOMAIN ls :
                      \/ ls[j].order > ls[i].order
                      \/ ls[j].order = ls[i].order /\ j < i })

\* the layers top to bottom as the timeline shows them
SortedLayers(ls) ==
  [p \in DOMAIN ls |-> ls[CHOOSE i \in DOMAIN ls : DisplayPos(ls, i) = p]]

\* the two halves both split handlers write
SplitAt(m, layerId, clipId, t, id) ==
  LET at == getClip(m, layerId, clipId)
      clip == m.layers[at[1]].clips[at[2]]
      ratio == Rat(t - clip.startTime, clip.endTime - clip.startTime)
      srcStart == OrElse(clip.srcStart, IntV(0))
      srcEnd == OrElse(clip.srcEnd, IntV(0))
      splitSrc == NumAdd(srcStart, NumMul(NumSub(srcEnd, srcStart), ratio))
      newClip == [clip EXCEPT !.id = id, !.startTime = t, !.srcStart = splitSrc]
  IN  addClip(updateClip(m, layerId, clipId, [endTime |-> t, srcEnd |-> splitSrc]),
              layerId, newClip)

\* Timeline.splitClip with a second half that keeps the clip's srcStart
splitClip_SameSrcStart(m, layerId, clipId, t, id) ==
  LET at == getClip(m, layerId, clipId)
      clip == m.layers[at[1]].clips[at[2]]
  IN  IF at[1] = 0 \/ t <= clip.startTime \/ t >= clip.endTime THEN m
      ELSE addClip(updateClip(m, layerId, clipId, [endTime |-> t]),
                   layerId, [clip EXCEPT !.id = id, !.startTime = t])

\* Timeline.splitClip(layerId, clipId, t), id being what genId() returns
splitClip(m, layerId, clipId, t, id) ==
  LET at == getClip(m, layerId, clipId)
      clip == m.layers[at[1]].clips[at[2]]
  IN  IF at[1] = 0 \/ t <= clip.startTime \/ t >= clip.endTime THEN m
      ELSE SplitAt(m, layerId, clipId, t, id)

\* the 'splitClip' listener without its test of isFiltered
onSplitClip_NoFilterTest(m, layerId, clipId, t, id) ==
  splitClip(m, layerId, clipId, t, id)

\* the listener of the 'splitClip' event
onSplitClip(m, layerId, clipId, t, id) ==
  LET at == getClip(m, layerId, clipId)
      clip == m.layers[at[1]].clips[at[2]]
  IN  IF at[1] = 0 \/ t <= clip.startTime \/ t >= clip.endTime THEN m
      ELSE IF clip.isFiltered THEN m
      ELSE SplitAt(m, layerId, clipId, t, id)

\* cutAtPlayhead(): the clips it collects in toSplit
ToSplit(m, t) ==
  IF m.selClip # NoId /\ m.selLayer # NoId
  THEN LET at == getClip(m, m.selLayer, m.selClip)
           clip == m.layers[at[1]].clips[at[2]]
       IN  IF at[1] # 0 /\ ~clip.isFiltered /\ t > clip.startTime /\ t < clip.endTime
           THEN << [layerId |-> m.selLayer, clipId |-> m.selClip, li |-> at[1], ci |-> at[2]] >>
           ELSE << >>
  ELSE SelectSeq(ClipRefs(m.layers),
                 LAMBDA r : /\ m.layers[r.li].visible
                            /\ ~ClipAt(m.layers, r).isFiltered
                            /\ t > ClipAt(m.layers, r).startTime
                            /\ t < ClipAt(m.layers, r).endTime)

\* toSplit.forEach(... emit('splitClip', ...)), k ids having been handed out
RECURSIVE EmitSplits(_, _, _, _)
EmitSplits(m, toSplit, t, k) ==
  IF toSplit = << >> THEN m
  ELSE LET r == Head(toSplit)
           m2 == onSplitClip(m, r.layerId, r.clipId, t, NewId(k))
       IN  EmitSplits(m2, Tail(toSplit), t, IF m2.layers # m.layers THEN k + 1 ELSE k)

cutAtPlayhead(m, t, k) ==
  IF ~m.loaded \/ ToSplit(m, t) = << >> THEN m
  ELSE EmitSplits(saveSnapshot(m), ToSplit(m, t), t, k)

-----------------------------------------------------------------------------
(* The handlers of the user's gestures.  Each is one step; what it was     *)
(* called with and the model it started from are kept in hist.             *)

\* Properties.onSelectionChanged and the listener that clears _snapped
PropsShown(m) ==
  IF m.selClip = NoId \/ m.selLayer = NoId \/ getClip(m, m.selLayer, m.selClip)[1] = 0
  THEN NoProps
  ELSE [layerId |-> m.selLayer, clipId |-> m.selClip, snapped |-> FALSE, focused |-> FALSE]

\* the panel after removeClip(layerId, ...), which reports an empty selection
\* whenever the layer exists
PropsAfterRemove(m, layerId) == IF getLayer(m, layerId) # 0 THEN NoProps ELSE props

\* the first handler of a user action
UiHist(name, a) ==
  [HistInit EXCEPT !.op = name, !.n = hist.n + 1, !.pre = Pre(Model),
                   !.base = layers, !.arg = a, !.start = Pre(Model)]

\* a later handler of the same user action
UiStep(name) ==
  [hist EXCEPT !.op = name, !.pre = Pre(Model),
               !.moved = @ \/ name \in { "onMouseMove", "preview-onMouseMove" }]

Arg(layerId, clipId, t) == [layerId |-> layerId, clipId |-> clipId, t |-> t]

\* no button is held down
NoDragging == ~drag.active /\ ~previewDrag.active

\* no button is held down and no input of the Properties panel has the focus,
\* where it would take the keys and be left (and changed) by a click elsewhere
Idle == NoDragging /\ ~props.focused

\* EditorState.setCurrentTime(t): a seek
setCurrentTime(t) ==
  /\ Idle
  /\ currentTime' = t
  /\ hist' = UiHist("setCurrentTime", Arg(NoId, NoId, t))
  /\ UNCHANGED << loaded, layers, sourceVideoDuration, exportVars, selectedClipId, selectedLayerId,
                  undoStack, redoStack, activeTool, nextId, drag, previewDrag, props, rightClickInfo, player >>

\* EditorState.setActiveTool(tool)
setActiveTool(tool) ==
  /\ Idle
  /\ activeTool' = tool
  /\ hist' = UiHist("setActiveTool", NoArg)
  /\ UNCHANGED << loaded, layers, sourceVideoDuration, exportVars, selectedClipId, selectedLayerId,
                  undoStack, redoStack, currentTime, nextId, drag, previewDrag, props, rightClickInfo, player >>

\* a click that selects a clip, or a layer's label (clipId null)
clickSelect(layerId, clipId) ==
  /\ Idle
  /\ Commit(selectClip(Model, layerId, clipId))
  /\ props' = PropsShown(selectClip(Model, layerId, clipId))
  /\ hist' = UiHist("selectClip", Arg(layerId, clipId, 0))
  /\ UNCHANGED << sourceVideoDuration, exportVars, currentTime, activeTool, nextId, drag, previewDrag, rightClickInfo, player >>

\* the cut button and the 'c' key
onCutAtPlayhead ==
  LET m2 == cutAtPlayhead(Model, currentTime, nextId) IN
  /\ Idle
  /\ Commit(m2)
  /\ nextId' = nextId + ClipCount(m2.layers) - ClipCount(layers)
  /\ hist' = UiHist("cutAtPlayhead", Arg(selectedLayerId, selectedClipId, currentTime))
  /\ UNCHANGED << sourceVideoDuration, exportVars, currentTime, activeTool, drag, previewDrag, props, rightClickInfo, player >>

\* a right click on a clip of the timeline opens the context menu
onContextMenu(layerId, clipId) ==
  /\ Idle
  /\ getClip(Model, layerId, clipId)[1] # 0
  /\ Commit(selectClip(Model, layerId, clipId))
  /\ props' = PropsShown(selectClip(Model, layerId, clipId))
  /\ rightClickInfo' = [layerId |-> layerId, clipId |-> clipId]
  /\ hist' = UiHist("contextmenu", Arg(layerId, clipId, 0))
  /\ UNCHANGED << sourceVideoDuration, exportVars, currentTime, activeTool, nextId, drag, previewDrag, player >>

\* what a click on an item of the context menu does to the model
CtxAction(m, action, layerId, clipId, t, id) ==
  LET at == getClip(m, layerId, clipId)
      clip == m.layers[at[1]].clips[at[2]]
  IN  IF at[1] = 0 THEN m
      ELSE IF action = "delete" THEN removeClip(saveSnapshot(m), layerId, clipId)
      ELSE IF action \in { "split", "cut" }
      THEN onSplitClip(saveSnapshot(m), layerId, clipId, t, id)
      ELSE IF action = "duplicate"
      THEN addClip(saveSnapshot(m), layerId,
                   [clip EXCEPT !.id = id, !.startTime = clip.endTime,
                                !.endTime = clip.endTime + (clip.endTime - clip.startTime)])
      ELSE m

\* a click on an item of the context menu, the menu being still open
onCtxItem(action) ==
  LET layerId == rightClickInfo.layerId
      clipId == rightClickInfo.clipId
      m2 == CtxAction(Model, action, layerId, clipId, currentTime, NewId(nextId))
  IN  /\ Idle
      /\ rightClickInfo # NoRightClick
      /\ Commit(m2)
      /\ nextId' = IF ClipCount(m2.layers) > ClipCount(layers) THEN nextId + 1 ELSE nextId
      /\ props' = IF action = "delete" /\ m2 # Model
                  THEN PropsAfterRemove(Model, layerId) ELSE props
      /\ rightClickInfo' = NoRightClick
      /\ hist' = [UiStep("ctx" \o action) EXCEPT !.base = layers, !.start = Pre(Model),
                     !.arg = Arg(layerId, clipId, currentTime)]
      /\ UNCHANGED << sourceVideoDuration, exportVars, currentTime, activeTool, drag, previewDrag, player >>

\* Timeline.beginDrag(e, type, layerId, clipId) with the left button,
\* offsetPx pixels right of the clip's left edge
beginDrag(type, layerId, clipId, offsetPx) ==
  LET at == getClip(Model, layerId, clipId)
      clip == layers[at[1]].clips[at[2]]
      sel == selectClip(Model, layerId, clipId)
      razor == type = "move" /\ activeTool = "razor"
      t == clip.startTime + offsetPx * PxTicks
      cut == splitClip(saveSnapshot(sel), layerId, clipId, t, NewId(nextId))
  IN  /\ Idle
      /\ at[1] # 0
      /\ IF razor
         THEN /\ Commit(IF clip.isFiltered THEN sel ELSE cut)
              /\ nextId' = IF ~clip.isFiltered /\ cut.layers # layers
                           THEN nextId + 1 ELSE nextId
              /\ drag' = drag
         ELSE /\ Commit(saveSnapshot(sel))
              /\ nextId' = nextId
              /\ drag' = [active |-> TRUE, type |-> type,
                          layerId |-> layerId, clipId |-> clipId,
                          currentLayerId |-> layerId,
                          origStart |-> clip.startTime, origEnd |-> clip.endTime,
                          origSrcStart |-> Nullish(clip.srcStart, IntV(0)),
                          origSrcEnd |-> Nullish(clip.srcEnd,
                                                 IntV(clip.endTime - clip.startTime)),
                          targetNewLayer |-> FALSE]
      /\ props' = PropsShown(sel)
      /\ hist' = UiHist(IF razor THEN "razor" ELSE type, Arg(layerId, clipId, t))
      /\ UNCHANGED << sourceVideoDuration, exportVars, currentTime, activeTool, previewDrag, rightClickInfo, player >>

\* the update Timeline.onMouseMove writes to the dragged clip
DragUpdate(m, srcDur, d, clip, dx) ==
  LET dt == dx * PxTicks
      minDur == MinDur
      edges == getSnapEdges(m, d.clipId)
      dur == d.origEnd - d.origStart
      rawStart == IntV(Max(0, d.origStart + dt))
      rawMoveEnd == IntV(rawStart.n + dur)
      sStart == snapToEdges(rawStart, edges)
      sEnd == snapToEdges(rawMoveEnd, edges)
      dStart == Abs(sStart.n - rawStart.n)
      dEnd == Abs(sEnd.n - rawMoveEnd.n)
      moveStart ==
        IF dStart > 0 /\ dEnd > 0
        THEN (IF dStart <= dEnd THEN Max(0, sStart.n) ELSE Max(0, sEnd.n - dur))
        ELSE IF dStart > 0 THEN Max(0, sStart.n)
        ELSE IF dEnd > 0 THEN Max(0, sEnd.n - dur)
        ELSE snapFrame(rawStart)
      rawTrim == IntV(Max(0, Min(d.origEnd - minDur, d.origStart + dt)))
      sTrim == snapToEdges(rawTrim, edges)
      trimStart == IF sTrim # rawTrim THEN Max(0, sTrim.n) ELSE snapFrame(rawTrim)
      startDelta == trimStart - d.origStart
      maxSrcEnd == IF clip.type # "subtitle"
                   THEN (IF srcDur # 0 THEN srcDur ELSE MAX_SRC_END)
                   ELSE MAX_SRC_END
      limit == NumAdd(IntV(d.origStart),
                      NumSub(IntV(maxSrcEnd), OrElse(clip.srcStart, IntV(0))))
      capped == NumMin(IntV(d.origEnd + dt), limit)
      rawEnd == IF NumLess(capped, IntV(d.origStart + minDur))
                THEN IntV(d.origStart + minDur) ELSE capped
      sTrimEnd == snapToEdges(rawEnd, edges)
      trimEnd == IF sTrimEnd # rawEnd THEN Max(d.origStart + minDur, sTrimEnd.n)
                 ELSE snapFrame(rawEnd)
      endDelta == trimEnd - d.origEnd
  IN  IF d.type = "move"
      THEN [startTime |-> moveStart, endTime |-> moveStart + dur]
      ELSE IF d.type = "resize-start"
      THEN [startTime |-> trimStart,
            srcStart |-> IF clip.type # "subtitle"
                         THEN NumMin(NumAdd(d.origSrcStart, IntV(startDelta)),
                                     NumSub(d.origSrcEnd, IntV(minDur)))
                         ELSE clip.srcStart]
      ELSE [endTime |-> trimEnd,
            srcEnd |-> IF clip.type # "subtitle"
                       THEN NumMin(NumAdd(d.origSrcEnd, IntV(endDelta)), IntV(maxSrcEnd))
                       ELSE clip.srcEnd]

\* Timeline.onMouseMove(e): the pointer dx pixels right of where the drag
\* began, over track trackIdx (from 0; the count of layers is the zone below)
onMouseMove(dx, trackIdx) ==
  LET at == getClip(Model, drag.layerId, drag.clipId)
      clip == layers[at[1]].clips[at[2]]
      m2 == updateClip(Model, drag.layerId, drag.clipId,
                       DragUpdate(Model, sourceVideoDuration, drag, clip, dx))
      sorted == SortedLayers(m2.layers)
  IN  /\ drag.active
      /\ at[1] # 0
      /\ Commit(m2)
      /\ drag' = IF drag.type # "move" THEN drag
                 ELSE IF trackIdx >= Len(sorted)
                 THEN [drag EXCEPT !.targetNewLayer = TRUE]
                 ELSE [drag EXCEPT !.targetNewLayer = FALSE,
                                   !.currentLayerId =
                                      IF trackIdx >= 0 THEN sorted[trackIdx + 1].id ELSE @]
      /\ hist' = UiStep("onMouseMove")
      /\ UNCHANGED << sourceVideoDuration, exportVars, currentTime, activeTool, nextId,
                      previewDrag, props, rightClickInfo, player >>

\* Timeline.onMouseUp(): the drop of a clip dragged to another track
DropClip(m, d, id) ==
  LET at == getClip(m, d.layerId, d.clipId)
      clipData == m.layers[at[1]].clips[at[2]]
      removed == [m.layers EXCEPT ![at[1]].clips =
                    SelectSeq(@, LAMBDA c : c.id # d.clipId)]
      minOrder == CHOOSE o \in { m.layers[i].order : i \in DOMAIN m.layers } :
                    \A i \in DOMAIN m.layers : o <= m.layers[i].order
      newLayer == Layer(id, clipData.type, minOrder - 1, TRUE, << clipData >>)
      dest == getLayer(m, d.currentLayerId)
  IN  IF ~(d.type = "move" /\ (d.targetNewLayer \/ d.currentLayerId # d.layerId)) THEN m
      ELSE IF at[1] = 0 \/ ~m.loaded THEN m
      ELSE IF d.targetNewLayer
      THEN selectClip([m EXCEPT !.layers = Append(removed, newLayer)], id, d.clipId)
      ELSE selectClip([m EXCEPT !.layers =
                         IF dest = 0 THEN removed
                         ELSE [removed EXCEPT ![dest].clips = Append(@, clipData)]],
                      d.currentLayerId, d.clipId)

onMouseUp ==
  LET m2 == DropClip(Model, drag, NewId(nextId)) IN
  /\ drag.active
  /\ Commit(m2)
  /\ nextId' = IF Len(m2.layers) > Len(layers) THEN nextId + 1 ELSE nextId
  /\ drag' = NoDrag
  /\ props' = IF m2 # Model THEN PropsShown(m2) ELSE props
  /\ hist' = UiStep("onMouseUp")
  /\ UNCHANGED << sourceVideoDuration, exportVars, currentTime, activeTool, previewDrag, rightClickInfo, player >>

-----------------------------------------------------------------------------
(* The other gestures that edit the layer list: the toolbar's buttons, the *)
(* Delete key, the layer labels, the preview and the Properties panel.     *)

OUTPUT_W == 1080

\* the length of a new caption: 3 s
CAPTION_DURATION == 3 * TicksPerSec

\* Layers.addSubtitleLayer, k ids having been handed out
addSubtitleLayer(m, t, k) ==
  IF ~m.loaded THEN m
  ELSE addLayer(saveSnapshot(m),
                Layer(NewId(k), "subtitle", Len(m.layers), TRUE,
                      << SubtitleClip(NewId(k + 1), t, t + CAPTION_DURATION) >>))

onAddSubtitleLayer ==
  /\ Idle
  /\ Commit(addSubtitleLayer(Model, currentTime, nextId))
  /\ nextId' = IF loaded THEN nextId + 2 ELSE nextId
  /\ hist' = UiHist("addSubtitleLayer", NoArg)
  /\ UNCHANGED << sourceVideoDuration, exportVars, currentTime, activeTool, drag, previewDrag, props,
                  rightClickInfo, player >>

\* the first layer of type audio, 0 if there is none
FindAudioLayer(ls) ==
  IF \E i \in DOMAIN ls : ls[i].type = "audio"
  THEN CHOOSE i \in DOMAIN ls : ls[i].type = "audio" /\ \A j \in 1..(i - 1) : ls[j].type # "audio"
  ELSE 0

\* Layers.addAudioLayer(audioPath, audioName, startTime, volume, audioDuration),
\* audioDuration 0 standing for a duration that is not known
addAudioLayer(m, startTime, audioDuration, k) ==
  LET snap == saveSnapshot(m)
      li == FindAudioLayer(snap.layers)
      clip == AudioClip(NewId(k), startTime,
                        startTime + (IF audioDuration # 0 THEN audioDuration
                                     ELSE DEFAULT_DURATION))
  IN  IF ~m.loaded THEN m
      ELSE IF li # 0 THEN addClip(snap, snap.layers[li].id, clip)
      ELSE addLayer(snap, Layer(NewId(k + 1), "audio", Len(snap.layers), TRUE, << clip >>))

\* the audio dialog's confirm button, the upload having succeeded: it calls
\* Layers.addAudioLayer(path, name, startTime, volume), passing no duration
onAddAudioLayer(startTime) ==
  LET m2 == addAudioLayer(Model, startTime, 0, nextId) IN
  /\ Idle
  /\ Commit(m2)
  /\ nextId' = IF ~loaded THEN nextId
               ELSE IF Len(m2.layers) > Len(layers) THEN nextId + 2 ELSE nextId + 1
  /\ hist' = UiHist("addAudioLayer", Arg(NoId, NoId, startTime))
  /\ UNCHANGED << sourceVideoDuration, exportVars, currentTime, activeTool, drag, previewDrag, props,
                  rightClickInfo, player >>

\* the Delete and Backspace keys, the question being answered with yes
onDeleteKey ==
  LET m2 == IF selectedClipId # NoId /\ selectedLayerId # NoId
            THEN removeClip(saveSnapshot(Model), selectedLayerId, selectedClipId)
            ELSE Model
  IN  /\ Idle
      /\ Commit(m2)
      /\ props' = IF m2 # Model THEN PropsAfterRemove(Model, selectedLayerId) ELSE props
      /\ hist' = UiHist("deleteKey", Arg(selectedLayerId, selectedClipId, 0))
      /\ UNCHANGED << sourceVideoDuration, exportVars, currentTime, activeTool, nextId, drag,
                      previewDrag, rightClickInfo, player >>

\* the eye button of a layer's label
onToggleVisible(layerId) ==
  LET li == getLayer(Model, layerId) IN
  /\ Idle
  /\ li # 0
  /\ Commit(updateLayer(Model, layerId, [visible |-> ~layers[li].visible]))
  /\ hist' = UiHist("toggleVisible", Arg(layerId, NoId, 0))
  /\ UNCHANGED << sourceVideoDuration, exportVars, currentTime, activeTool, nextId, drag, previewDrag,
                  props, rightClickInfo, player >>

\* s without its element at index i
RemoveAt(s, i) == SubSeq(s, 1, i - 1) \o SubSeq(s, i + 1, Len(s))

\* s with e put at index i (past the end: appended)
InsertAt(s, i, e) ==
  IF i > Len(s) THEN Append(s, e)
  ELSE SubSeq(s, 1, i - 1) \o << e >> \o SubSeq(s, i, Len(s))

\* the drop of layer srcId's label on the label shown at displayIdx (from 0)
LabelDrop(m, srcId, displayIdx) ==
  LET current == SortedLayers(m.layers)
      srcIdx == IndexOfId(current, srcId)
      ids == [i \in DOMAIN current |-> current[i].id]
      reordered == InsertAt(RemoveAt(ids, srcIdx), displayIdx + 1, srcId)
  IN  IF srcId = current[displayIdx + 1].id \/ srcIdx = 0 THEN m
      ELSE reorderLayers(saveSnapshot(m), reordered)

onLabelDrop(srcId, displayIdx) ==
  /\ Idle
  /\ displayIdx + 1 \in DOMAIN layers
  /\ Commit(LabelDrop(Model, srcId, displayIdx))
  /\ hist' = UiHist("labelDrop", Arg(srcId, NoId, displayIdx))
  /\ UNCHANGED << sourceVideoDuration, exportVars, currentTime, activeTool, nextId, drag, previewDrag,
                  props, rightClickInfo, player >>

\* Player.renderFrame: the clip is drawn, and so has bounds, at time t
Drawn(ls, ref, t) ==
  /\ ls[ref.li].visible
  /\ ClipAt(ls, ref).type \in { "video", "subtitle" }
  /\ ClipAt(ls, ref).startTime <= t /\ t < ClipAt(ls, ref).endTime

\* Player.onMouseDown(e) with the left button: on a handle of the selected
\* clip ("l", "r"), on the body of a drawn clip ("move"), or elsewhere ("none")
onPreviewDown(hit, layerId, clipId) ==
  LET at == getClip(Model, layerId, clipId)
      ref == [layerId |-> layerId, clipId |-> clipId, li |-> at[1], ci |-> at[2]]
      clip == layers[at[1]].clips[at[2]]
      sel == selectClip(Model, layerId, clipId)
  IN  /\ Idle
      /\ hit # "none" => at[1] # 0 /\ Drawn(layers, ref, currentTime)
      /\ hit \in { "l", "r" } => selectedClipId = clipId /\ selectedLayerId = layerId
      /\ hit = "none" => layerId = NoId /\ clipId = NoId
      /\ Commit(IF hit \in { "l", "r" } THEN saveSnapshot(Model)
                ELSE IF hit = "move" THEN saveSnapshot(sel) ELSE sel)
      /\ previewDrag' =
           IF hit = "none" THEN previewDrag
           ELSE [active |-> TRUE, type |-> hit, layerId |-> layerId, clipId |-> clipId,
                 origX |-> IF hit = "move" THEN OrElse(clip.x, IntV(0)) ELSE clip.x]
      /\ props' = IF hit \in { "l", "r" } THEN props ELSE PropsShown(sel)
      /\ hist' = UiHist("preview-" \o hit, Arg(layerId, clipId, currentTime))
      /\ UNCHANGED << sourceVideoDuration, exportVars, currentTime, activeTool, nextId, drag,
                      rightClickInfo, player >>

\* the x Player.onMouseMove writes, the pointer being dx output pixels right
\* of where the drag began
PreviewX(d, clip, dx) ==
  LET cx == OrElse(d.origX, IntV(OUTPUT_W \div 2)) IN
  IF d.type = "move"
  THEN NumRound(NumAdd(IF clip.type = "subtitle" THEN cx ELSE OrElse(d.origX, IntV(0)),
                       IntV(dx)))
  ELSE IF clip.type = "video"
  THEN NumRound(NumAdd(OrElse(d.origX, IntV(0)), IntV(IF d.type = "l" THEN dx ELSE 0)))
  ELSE NumRound(NumAdd(cx, Rat(dx, 2)))

onPreviewMove(dx) ==
  LET at == getClip(Model, previewDrag.layerId, previewDrag.clipId)
      clip == layers[at[1]].clips[at[2]]
  IN  /\ previewDrag.active
      /\ at[1] # 0
      /\ Commit(updateClip(Model, previewDrag.layerId, previewDrag.clipId,
                           [x |-> PreviewX(previewDrag, clip, dx)]))
      /\ hist' = UiStep("preview-onMouseMove")
      /\ UNCHANGED << sourceVideoDuration, exportVars, currentTime, activeTool, nextId, drag,
                      previewDrag, props, rightClickInfo, player >>

onPreviewUp ==
  /\ previewDrag.active
  /\ previewDrag' = NoPreviewDrag
  /\ hist' = UiStep("preview-onMouseUp")
  /\ UNCHANGED << loaded, layers, sourceVideoDuration, exportVars, selectedClipId, selectedLayerId,
                  undoStack, redoStack, currentTime, activeTool, nextId, drag, props,
                  rightClickInfo, player >>

\* Properties: a press or a focus inside the panel (onPropEdit)
onPropFocus ==
  /\ Idle
  /\ props.clipId # NoId
  /\ Commit(IF props.snapped THEN Model ELSE saveSnapshot(Model))
  /\ props' = [props EXCEPT !.snapped = TRUE, !.focused = TRUE]
  /\ hist' = UiHist("propFocus", Arg(props.layerId, props.clipId, 0))
  /\ UNCHANGED << sourceVideoDuration, exportVars, currentTime, activeTool, nextId, drag, previewDrag,
                  rightClickInfo, player >>

\* Properties: the change of the input that has the focus
onPropChange(updates) ==
  /\ NoDragging
  /\ props.focused
  /\ Commit(updateClip(Model, props.layerId, props.clipId, updates))
  /\ props' = [props EXCEPT !.focused = FALSE]
  /\ hist' = UiStep("propChange")
  /\ UNCHANGED << sourceVideoDuration, exportVars, currentTime, activeTool, nextId, drag, previewDrag,
                  rightClickInfo, player >>

\* Properties: the input that has the focus is left as it is
onPropBlur ==
  /\ NoDragging
  /\ props.focused
  /\ props' = [props EXCEPT !.focused = FALSE]
  /\ hist' = UiStep("propBlur")
  /\ UNCHANGED << loaded, layers, sourceVideoDuration, exportVars, selectedClipId, selectedLayerId,
                  undoStack, redoStack, currentTime, activeTool, nextId, drag, previewDrag,
                  rightClickInfo, player >>

\* Properties: the delete button of a caption or an audio clip, pressed
\* (onPropEdit) and released (its click handler)
onPropDelete ==
  LET at == getClip(Model, props.layerId, props.clipId)
      pressed == IF props.snapped THEN Model ELSE saveSnapshot(Model)
      m2 == removeClip(saveSnapshot(pressed), props.layerId, props.clipId)
  IN  /\ Idle
      /\ props.clipId # NoId
      /\ at[1] # 0 /\ layers[at[1]].clips[at[2]].type \in { "subtitle", "audio" }
      /\ Commit(m2)
      /\ props' = PropsAfterRemove(Model, props.layerId)
      /\ hist' = UiHist("propDelete", Arg(props.layerId, props.clipId, 0))
      /\ UNCHANGED << sourceVideoDuration, exportVars, currentTime, activeTool, nextId, drag,
                      previewDrag, rightClickInfo, player >>

-----------------------------------------------------------------------------
(* SpecCut: the three ways to split a clip (the cut button, the context    *)
(* menu, a razor click), with seeks, selections, tool changes and drops    *)
(* of a clip on another track in between.                                  *)

MaxCutActions == 2

\* the default project after the Properties panel set the clip's end to 2 s
\* and its source window to 0.2 s .. 1.2 s
StretchedProject ==
  << Layer("L1", "video", 0, TRUE, << VideoClip("c1", 0, 300, 30, 180, FALSE) >>),
     Layer("L2", "subtitle", 1, TRUE, << SubtitleClip("c2", 0, 150) >>) >>

CutProjects == { DefaultProject, RoflProject, StretchedProject }

\* playhead positions: the start, 0.5 s, 1.67 s
CutTimes == { 0, 75, 250 }

\* where on a clip a razor click lands, in pixels from its left edge
RazorOffsets == { 0, 25 }

Tools == { "select", "razor" }

ClipPairs == { << r.layerId, r.clipId >> : r \in { ClipRefs(layers)[i] : i \in DOMAIN ClipRefs(layers) } }

InitCut ==
  /\ loaded = TRUE
  /\ layers \in CutProjects
  /\ sourceVideoDuration = SOURCE_DURATION
  /\ selectedClipId = NoId
  /\ selectedLayerId = NoId
  /\ undoStack = << >>
  /\ redoStack = << >>
  /\ currentTime \in CutTimes
  /\ activeTool \in Tools
  /\ nextId = 0
  /\ NoGesture
  /\ NoExport
  /\ player = NoPlayback
  /\ hist = HistInit

CutBudget == hist.n < MaxCutActions

XSeek == CutBudget /\ \E t \in CutTimes : t # currentTime /\ setCurrentTime(t)

XTool == CutBudget /\ \E tool \in Tools : tool # activeTool /\ setActiveTool(tool)

XSelect == CutBudget /\ \E s \in Selections : clickSelect(s[1], s[2])

XCutAtPlayhead == CutBudget /\ onCutAtPlayhead

XContextMenu == CutBudget /\ \E p \in ClipPairs : onContextMenu(p[1], p[2])

XCtxSplit == \E action \in { "split", "cut" } : onCtxItem(action)

XBeginDrag == CutBudget /\ \E p \in ClipPairs, px \in RazorOffsets : beginDrag("move", p[1], p[2], px)

XMouseMove == \E track \in 0..Len(layers) : onMouseMove(0, track)

XMouseUp == onMouseUp

NextCut ==
  \/ XSeek \/ XTool \/ XSelect \/ XCutAtPlayhead \/ XContextMenu \/ XCtxSplit
  \/ XBeginDrag \/ XMouseMove \/ XMouseUp

SpecCut == InitCut /\ [][NextCut]_vars

-----------------------------------------------------------------------------
(* SpecDur: the editor's total duration and the export's, computed for     *)
(* projects of up to one video clip and one caption.                       *)

\* exportVideo: allVideoClips, the video clips of the layers not hidden
AllVideoClips(ls) ==
  SelectSeq(ClipRefs(ls),
            LAMBDA r : ls[r.li].visible /\ ClipAt(ls, r).type = "video")

RECURSIVE ReduceMaxEnd(_, _, _)
ReduceMaxEnd(ls, refs, max) ==
  IF refs = << >> THEN max
  ELSE ReduceMaxEnd(ls, Tail(refs), Max(max, ClipAt(ls, Head(refs)).endTime))

Thrown == [k |-> "throw", n |-> 0, d |-> 1]

\* exportVideo(project, ...): the totalDuration it renders, or the error
\* 'No video clips found'
exportVideo(ls) ==
  IF AllVideoClips(ls) = << >> THEN Thrown
  ELSE IntV(ReduceMaxEnd(ls, AllVideoClips(ls), 0))

\* clip ends: 0, 1 s, 2 s, 3 s
DurEnds == { 0, 150, 300, 450 }

DurProjects ==
  { << Layer("L1", "video", 0, vis, v), Layer("L2", "subtitle", 1, TRUE, s) >> :
      vis \in BOOLEAN,
      v \in { << >> } \cup { << VideoClip("c1", 0, e, 0, e, FALSE) >> : e \in DurEnds \ { 450 } },
      s \in { << >> } \cup { << SubtitleClip("c2", 0, e) >> : e \in DurEnds \ { 300 } } }

InitDur ==
  /\ loaded = TRUE
  /\ layers \in DurProjects
  /\ sourceVideoDuration \in { 0, SOURCE_DURATION }
  /\ selectedClipId = NoId
  /\ selectedLayerId = NoId
  /\ undoStack = << >>
  /\ redoStack = << >>
  /\ currentTime = 0
  /\ activeTool = "select"
  /\ nextId = 0
  /\ NoGesture
  /\ NoExport
  /\ player = NoPlayback
  /\ hist = HistInit

DGetTotalDuration ==
  /\ hist' = [HistInit EXCEPT !.op = "getTotalDuration",
                !.result = IntV(getTotalDuration(loaded, layers, sourceVideoDuration))]
  /\ UNCHANGED << loaded, layers, sourceVideoDuration, exportVars, selectedClipId, selectedLayerId,
                  undoStack, redoStack, currentTime, activeTool, nextId,
                  drag, previewDrag, props, rightClickInfo, player >>

DExportVideo ==
  /\ hist' = [HistInit EXCEPT !.op = "exportVideo", !.result = exportVideo(layers)]
  /\ UNCHANGED << loaded, layers, sourceVideoDuration, exportVars, selectedClipId, selectedLayerId,
                  undoStack, redoStack, currentTime, activeTool, nextId,
                  drag, previewDrag, props, rightClickInfo, player >>

NextDur == DGetTotalDuration \/ DExportVideo

SpecDur == InitDur /\ [][NextDur]_vars

-----------------------------------------------------------------------------
(* SpecTrim: trims of clips by their handles on the timeline, and razor    *)
(* splits, on a project whose clips have source windows as long as they    *)
(* are.                                                                    *)

MaxTrimActions == 2

\* the default project with its caption ending 10 ticks after the video
LongCaptionProject ==
  << Layer("L1", "video", 0, TRUE,
           << VideoClip("c1", 0, SOURCE_DURATION, 0, SOURCE_DURATION, FALSE) >>),
     Layer("L2", "subtitle", 1, TRUE, << SubtitleClip("c2", 0, SOURCE_DURATION + 10) >>) >>

TrimProjects == { DefaultProject, LongCaptionProject }

\* pointer travel of a trim, in pixels
TrimDx == { -50, -10, 10, 50 }

\* where a razor click lands, in pixels from the clip's left edge
TrimRazorOffsets == { 50 }

InitTrim ==
  /\ loaded = TRUE
  /\ layers \in TrimProjects
  /\ sourceVideoDuration = SOURCE_DURATION
  /\ selectedClipId = NoId
  /\ selectedLayerId = NoId
  /\ undoStack = << >>
  /\ redoStack = << >>
  /\ currentTime = 0
  /\ activeTool \in Tools
  /\ nextId = 0
  /\ NoGesture
  /\ NoExport
  /\ player = NoPlayback
  /\ hist = HistInit

TrimBudget == hist.n < MaxTrimActions

YTool == TrimBudget /\ \E tool \in Tools : tool # activeTool /\ setActiveTool(tool)

YBeginTrim ==
  /\ TrimBudget
  /\ \E p \in ClipPairs, type \in { "resize-start", "resize-end" } :
       beginDrag(type, p[1], p[2], 0)

YRazor ==
  /\ TrimBudget
  /\ activeTool = "razor"
  /\ \E p \in ClipPairs, px \in TrimRazorOffsets : beginDrag("move", p[1], p[2], px)

YMouseMove == \E dx \in TrimDx : onMouseMove(dx, -1)

YMouseUp == onMouseUp

NextTrim == YTool \/ YBeginTrim \/ YRazor \/ YMouseMove \/ YMouseUp

SpecTrim == InitTrim /\ [][NextTrim]_vars

-----------------------------------------------------------------------------
(* SpecUI: every gesture of the editor that can change the layer list, on  *)
(* the default project.                                                    *)

MaxUiActions == 2

\* playhead positions: 0.5 s (over both clips) and 1.33 s (over the video only)
UiTimes == { 75, 200 }

\* pointer travel of a timeline drag, in pixels
UiDx == { 50 }

\* pointer travel of a preview drag, in output pixels
UiPreviewDx == { 20 }

\* what is typed into a number input of the Properties panel: nothing, or 7
\* into X; 0 into the end time
UiUpdates == { [x |-> NaN], [x |-> IntV(7)], [endTime |-> 0] }

\* start times typed into the audio dialog: none, 0.5 s
UiAudioStarts == { 0, 75 }

InitUI ==
  /\ loaded = TRUE
  /\ layers = DefaultProject
  /\ sourceVideoDuration = SOURCE_DURATION
  /\ selectedClipId = NoId
  /\ selectedLayerId = NoId
  /\ undoStack = << >>
  /\ redoStack = << >>
  /\ currentTime \in UiTimes
  /\ activeTool = "select"
  /\ nextId = 0
  /\ NoGesture
  /\ NoExport
  /\ player = NoPlayback
  /\ hist = HistInit

UiBudget == hist.n < MaxUiActions

USeek == UiBudget /\ \E t \in UiTimes : t # currentTime /\ setCurrentTime(t)

UTool == UiBudget /\ \E tool \in Tools : tool # activeTool /\ setActiveTool(tool)

USelect ==
  /\ UiBudget
  /\ \/ \E p \in ClipPairs : clickSelect(p[1], p[2])
     \/ \E id \in LayerIds(layers) : clickSelect(id, NoId)

UCutAtPlayhead == UiBudget /\ onCutAtPlayhead

UContextMenu == UiBudget /\ \E p \in ClipPairs : onContextMenu(p[1], p[2])

UCtxItem == \E action \in { "delete", "split", "cut", "duplicate" } : onCtxItem(action)

UBeginDrag ==
  /\ UiBudget
  /\ \E p \in ClipPairs, type \in { "move", "resize-start", "resize-end" } :
       beginDrag(type, p[1], p[2], 25)

UMouseMove == \E dx \in UiDx, track \in 0..Len(layers) : onMouseMove(dx, track)

UMouseUp == onMouseUp

UAddSubtitleLayer == UiBudget /\ onAddSubtitleLayer

UAddAudioLayer == UiBudget /\ \E t \in UiAudioStarts : onAddAudioLayer(t)

UDeleteKey == UiBudget /\ onDeleteKey

UToggleVisible == UiBudget /\ \E id \in LayerIds(layers) : onToggleVisible(id)

ULabelDrop ==
  /\ UiBudget
  /\ \E id \in LayerIds(layers), idx \in 0..(Len(layers) - 1) : onLabelDrop(id, idx)

UPreviewDown ==
  /\ UiBudget
  /\ \/ \E p \in ClipPairs, hit \in { "l", "r", "move" } : onPreviewDown(hit, p[1], p[2])
     \/ onPreviewDown("none", NoId, NoId)

UPreviewMove == \E dx \in UiPreviewDx : onPreviewMove(dx)

UPreviewUp == onPreviewUp

UPropFocus == UiBudget /\ onPropFocus

UPropChange == \E u \in UiUpdates : onPropChange(u)

UPropBlur == onPropBlur

UPropDelete == UiBudget /\ onPropDelete

NextUI ==
  \/ USeek \/ UTool \/ USelect \/ UCutAtPlayhead \/ UContextMenu \/ UCtxItem
  \/ UBeginDrag \/ UMouseMove \/ UMouseUp
  \/ UAddSubtitleLayer \/ UAddAudioLayer \/ UDeleteKey \/ UToggleVisible \/ ULabelDrop
  \/ UPreviewDown \/ UPreviewMove \/ UPreviewUp
  \/ UPropFocus \/ UPropChange \/ UPropBlur \/ UPropDelete

SpecUI == InitUI /\ [][NextUI]_vars

-----------------------------------------------------------------------------
(* The export plan: the filter graph the server's exportVideo() and the    *)
(* browser's ClientExport.exportVideo() build for the composite, and the   *)
(* frame Player.renderFrame() draws.  Clips carry the properties the       *)
(* exporters read besides their times: text, src and volume.               *)

\* a video clip of the source video
MediaVideoClip(id, s, e) == VideoClip(id, s, e, 0, e - s, FALSE) @@ [src |-> "/api/videos/stream/v"]

\* a caption; text "" is a caption whose text was deleted in the panel
MediaSubtitleClip(id, s, e, text) == SubtitleClip(id, s, e) @@ [text |-> text]

\* a background audio clip; volume is in percent, Undef when the clip has none
MediaAudioClip(id, s, e, src, volume) ==
  AudioClip(id, s, e) @@ [src |-> src, volume |-> volume]

\* layers.filter(l => l.visible !== false).flatMap(l => l.clips.filter(c => c.type === type))
VisibleClips(ls, type) ==
  SelectSeq(ClipRefs(ls), LAMBDA r : ls[r.li].visible /\ ClipAt(ls, r).type = type)

\* place of refs[i] after .sort((a, b) => a.startTime - b.startTime), which is stable
StartPos(ls, refs, i) ==
  1 + Cardinality({ j \in DOMAIN refs :
                      \/ ClipAt(ls, refs[j]).startTime < ClipAt(ls, refs[i]).startTime
                      \/ /\ ClipAt(ls, refs[j]).startTime = ClipAt(ls, refs[i]).startTime
                         /\ j < i })

\* allVideoClips
SortedVideoClips(ls) ==
  LET refs == VisibleClips(ls, "video")
  IN  [p \in DOMAIN refs |-> refs[CHOOSE i \in DOMAIN refs : StartPos(ls, refs, i) = p]]

\* allSubtitleClips
allSubtitleClips(ls) == VisibleClips(ls, "subtitle")

\* allAudioClips: the audio clips that have a src
allAudioClips(ls) ==
  SelectSeq(VisibleClips(ls, "audio"), LAMBDA r : ClipAt(ls, r).src # "")

\* Math.round(t * 1000), t in ticks
DelayMs(t) == (2 * 1000 * t + TicksPerSec) \div (2 * TicksPerSec)

\* the default volume of a background clip, in percent
DEFAULT_VOLUME == 80

\* 0.1 s, the least length a background clip is trimmed to
MIN_AUDIO_TRIM == TicksPerSec \div 10

\* the overlay stages: input i is shifted to the clip's start and overlaid
\* with enable='between(t,startTime,endTime)'
OverlayStages(ls, clips) ==
  [i \in DOMAIN clips |->
     [clip |-> clips[i].clipId, input |-> i - 1,
      pts |-> ClipAt(ls, clips[i]).startTime,
      from |-> ClipAt(ls, clips[i]).startTime, to |-> ClipAt(ls, clips[i]).endTime]]

\* per-clip audio without the test of hasAudio
ClipAudioStages_Unguarded(ls, clips, hasAudio) ==
  [i \in DOMAIN clips |->
     [clip |-> clips[i].clipId, input |-> i - 1, bg |-> FALSE,
      ops |-> << [op |-> "adelay", arg |-> DelayMs(ClipAt(ls, clips[i]).startTime)] >>,
      label |-> "av" \o ToString(i - 1)]]

\* the audio stages of the video clips: [i:a]adelay=delayMs:all=1[av i], for
\* the clips that have audio
ClipAudioStages(ls, clips, hasAudio) ==
  SelectSeq([i \in DOMAIN clips |->
               [clip |-> clips[i].clipId, input |-> i - 1, bg |-> FALSE,
                ops |-> << [op |-> "adelay", arg |-> DelayMs(ClipAt(ls, clips[i]).startTime)] >>,
                label |-> "av" \o ToString(i - 1)]],
            LAMBDA s : hasAudio[s.input + 1])

\* the drawtext stages: one for every caption that has a text, with
\* enable='between(t,startTime,endTime)'
DrawtextStages(ls) ==
  LET subs == SelectSeq(allSubtitleClips(ls), LAMBDA r : ClipAt(ls, r).text # "")
  IN  [i \in DOMAIN subs |->
         [clip |-> subs[i].clipId, from |-> ClipAt(ls, subs[i]).startTime,
          to |-> ClipAt(ls, subs[i]).endTime, label |-> "subs" \o ToString(i - 1)]]

\* clip.volume !== undefined ? clip.volume : 0.8
VolumeOf(clip) == IF clip.volume # Undef THEN clip.volume ELSE IntV(DEFAULT_VOLUME)

\* the mix: nothing for no label, the label itself for one, amix for more
MixOf(labels) ==
  IF Len(labels) > 1
  THEN [op |-> "amix", inputs |-> labels, n |-> Len(labels), normalize |-> 0]
  ELSE [op |-> "none", inputs |-> << >>, n |-> 0, normalize |-> 0]

\* audioMapLabel
MapOf(labels) ==
  IF Len(labels) = 1 THEN labels[1] ELSE IF Len(labels) > 1 THEN "amixed" ELSE "null"

\* the inputs of the composite command, in order
PlanInputs(clips, audio) ==
  [i \in DOMAIN clips |-> [clip |-> clips[i].clipId, bg |-> FALSE]]
  \o [i \in DOMAIN audio |-> [clip |-> audio[i].clipId, bg |-> TRUE]]

\* reports: what was reported about the audio of each video clip
Plan(kind, ls, clips, reports, hasAudio, audioInputs, bgStages) ==
  LET audio == ClipAudioStages(ls, clips, hasAudio) \o bgStages
      labels == [i \in DOMAIN audio |-> audio[i].label]
  IN  [kind |-> kind,
       reports |-> reports,
       inputs |-> PlanInputs(clips, audioInputs),
       overlays |-> OverlayStages(ls, clips),
       subs |-> DrawtextStages(ls),
       audio |-> audio,
       labels |-> labels,
       mix |-> MixOf(labels),
       map |-> MapOf(labels),
       duration |-> ReduceMaxEnd(ls, clips, 0)]

\* server: the background stages, [offset+i:a]atrim,asetpts,volume,adelay[abg i]
ServerAudioStages(ls, offset, totalDuration) ==
  LET audio == allAudioClips(ls)
  IN  [i \in DOMAIN audio |->
         LET clip == ClipAt(ls, audio[i])
             endT == IF clip.endTime # 0 THEN clip.endTime ELSE totalDuration
         IN  [clip |-> clip.id, input |-> offset + i - 1, bg |-> TRUE,
              ops |-> << [op |-> "atrim", arg |-> Max(MIN_AUDIO_TRIM, endT - clip.startTime)],
                         [op |-> "asetpts", arg |-> 0],
                         [op |-> "volume", arg |-> VolumeOf(clip).n],
                         [op |-> "adelay", arg |-> DelayMs(clip.startTime)] >>,
              label |-> "abg" \o ToString(i - 1)]]

\* the probe: hasAudio is false when ffprobe fails
ProbeHasAudio(report) == report = "audio"

\* server exportVideo(): the composite it builds once every clip is
\* extracted; probes[i] is what ffprobe reported for the i-th clip
ServerPlan(ls, probes) ==
  LET clips == SortedVideoClips(ls)
      hasAudio == [i \in DOMAIN probes |-> ProbeHasAudio(probes[i])]
  IN  Plan("server", ls, clips, probes, hasAudio, allAudioClips(ls),
           ServerAudioStages(ls, Len(clips), ReduceMaxEnd(ls, clips, 0)))

\* client: the background clips whose file was fetched (audioVfsNames[i])
LoadedAudio(ls, fetched) ==
  LET audio == allAudioClips(ls)
  IN  SelectSeq([i \in DOMAIN audio |-> audio[i] @@ [at |-> i]], LAMBDA r : fetched[r.at])

\* client: the background stages, [offset+bgAudioIdx:a]volume[abg i]
ClientAudioStages(ls, offset, fetched) ==
  LET audio == LoadedAudio(ls, fetched)
  IN  [k \in DOMAIN audio |->
         [clip |-> audio[k].clipId, input |-> offset + k - 1, bg |-> TRUE,
          ops |-> << [op |-> "volume", arg |-> VolumeOf(ClipAt(ls, audio[k])).n] >>,
          label |-> "abg" \o ToString(audio[k].at - 1)]]

\* headers.get('X-Has-Audio') === '1'
HeaderHasAudio(header) == header = "1"

\* ClientExport.exportVideo(): the composite it builds; headers[i] is the
\* X-Has-Audio header of the i-th clip, fetched[i] whether the i-th
\* background file could be fetched
ClientPlan(ls, headers, fetched) ==
  LET clips == SortedVideoClips(ls)
      hasAudio == [i \in DOMAIN headers |-> HeaderHasAudio(headers[i])]
  IN  Plan("client", ls, clips, headers, hasAudio, LoadedAudio(ls, fetched),
           ClientAudioStages(ls, Len(clips), fetched))

\* between(x, min, max) of FFmpeg's expression evaluator: 1 if min <= x <= max
between(x, min, max) == min <= x /\ x <= max

\* the layers left in array order, whatever their order values
DrawPos_Array(ls, i) == i

\* place of layer i after [...layers].sort((a, b) => a.order - b.order)
DrawPos(ls, i) ==
  1 + Cardinality({ j \in DOMAIN ls :
                      \/ ls[j].order < ls[i].order
                      \/ ls[j].order = ls[i].order /\ j < i })

\* Player.renderFrame() at time t: the clips it draws, first drawn first
renderFrame(ls, t) ==
  LET sorted == [p \in DOMAIN ls |-> CHOOSE i \in DOMAIN ls : DrawPos(ls, i) = p]
      refs == Flatten([p \in DOMAIN ls |->
                         [j \in DOMAIN ls[sorted[p]].clips |-> [li |-> sorted[p], ci |-> j]]])
      drawn == SelectSeq(refs, LAMBDA r :
                 LET clip == ClipAt(ls, r)
                 IN  /\ ls[r.li].visible
                     /\ ~(clip.startTime > t \/ clip.endTime <= t)
                     /\ \/ clip.type = "video"
                        \/ clip.type = "subtitle" /\ clip.text # "")
  IN  [i \in DOMAIN drawn |-> ClipAt(ls, drawn[i]).id]

-----------------------------------------------------------------------------
(* SpecPlan: one saved project, compiled by the server exporter and by the *)
(* client exporter for every outcome of the audio probes and fetches, and  *)
(* drawn by the preview at several times.                                  *)

\* layer orders after drags of the layer labels: as built, the two video
\* layers swapped, the first video layer above the first caption layer, the
\* two caption layers swapped
PlanOrders == { << 0, 1, 2, 3 >>, << 1, 0, 2, 3 >>, << 2, 1, 0, 3 >>, << 0, 1, 3, 2 >> }

\* background audio: none, one clip at 0.5 s with volume 50, and a second
\* clip at 0 without a volume
PlanAudio ==
  { << >>,
    << MediaAudioClip("a1", 75, 300, "/uploads/a.mp3", IntV(50)) >>,
    << MediaAudioClip("a1", 75, 300, "/uploads/a.mp3", IntV(50)),
       MediaAudioClip("a2", 0, 150, "/uploads/b.mp3", Undef) >> }

PlanProjects ==
  { << Layer("L1", "video", o[1], TRUE, << MediaVideoClip("v1", 0, 300) >>),
       Layer("L2", "video", o[2], vis, << MediaVideoClip("v2", s, s + 150) >>),
       Layer("L3", "subtitle", o[3], TRUE, << MediaSubtitleClip("s1", 0, 150, text) >>),
       Layer("L4", "subtitle", o[4], TRUE, << MediaSubtitleClip("s2", 75, 225, "b") >>),
       Layer("L5", "audio", 4, TRUE, audio) >> :
    o \in PlanOrders, vis \in BOOLEAN, s \in { 0, 75 }, text \in { "", "a" },
    audio \in PlanAudio }

\* times the preview is asked for: 0, 0.5 s, 1 s, 1.5 s, 2 s
PlanTimes == { 0, 75, 150, 225, 300 }

\* what ffprobe reports for a clip: an audio stream, none, or an error
ProbeResults == { "audio", "silent", "failed" }

\* the X-Has-Audio header of a fetched clip; "null": the header is missing
HeaderValues == { "1", "0", "null" }

InitPlan ==
  /\ loaded = TRUE
  /\ layers \in PlanProjects
  /\ sourceVideoDuration = SOURCE_DURATION
  /\ selectedClipId = NoId
  /\ selectedLayerId = NoId
  /\ undoStack = << >>
  /\ redoStack = << >>
  /\ currentTime = 0
  /\ activeTool = "select"
  /\ nextId = 0
  /\ NoGesture
  /\ NoExport
  /\ player = NoPlayback
  /\ hist = HistInit

\* a seek in the editor
PSeek ==
  /\ \E t \in PlanTimes : t # currentTime /\ currentTime' = t
  /\ UNCHANGED << loaded, layers, sourceVideoDuration, selectedClipId, selectedLayerId,
                  undoStack, redoStack, activeTool, nextId, drag, previewDrag, props,
                  rightClickInfo, hist, exportVars, player >>

PRenderFrame ==
  /\ plan' = [kind |-> "preview", t |-> currentTime,
              draws |-> renderFrame(layers, currentTime)]
  /\ UNCHANGED << editorVars, srv, cli, db, parked, player >>

PServerPlan ==
  /\ \E probes \in [DOMAIN SortedVideoClips(layers) -> ProbeResults] :
       plan' = ServerPlan(layers, probes)
  /\ UNCHANGED << editorVars, srv, cli, db, parked, player >>

PClientPlan ==
  /\ \E headers \in [DOMAIN SortedVideoClips(layers) -> HeaderValues],
        fetched \in [DOMAIN allAudioClips(layers) -> BOOLEAN] :
       plan' = ClientPlan(layers, headers, fetched)
  /\ UNCHANGED << editorVars, srv, cli, db, parked, player >>

NextPlan == PSeek \/ PRenderFrame \/ PServerPlan \/ PClientPlan

SpecPlan == InitPlan /\ [][NextPlan]_vars

-----------------------------------------------------------------------------
(* The server's export: the route POST /api/export/:projectId and the run  *)
(* of exportVideo() it starts, one step per callback.                      *)

NO_VIDEO_CLIPS == "No video clips found"

\* Projects.update(project.id, fields), noted in the log of the run
Write(d, fields, name) == [(fields @@ d) EXCEPT !.log = Append(d.log, name)]

THROTTLE_MS == 1000

\* Date.now() at the first call of onProgress of a run, in ms
EPOCH_MS == 5000

\* ms between the last write and a call of onProgress
Elapsed == { 0, THROTTLE_MS, THROTTLE_MS + 1 }

\* Date.now() at a call of onProgress
CallTime(d, elapsed) ==
  IF d.lastProgressWrite = 0 THEN EPOCH_MS ELSE d.lastProgressWrite + elapsed

\* the throttle with >= in place of >
onProgress_AtLeast(d, percent, now) ==
  IF now - d.lastProgressWrite >= THROTTLE_MS
  THEN [Write(d, [exportProgress |-> percent, lastProgressWrite |-> now], "progress")
          EXCEPT !.times = Append(@, now)]
  ELSE d

\* the route's onProgress(percent, message), called at the time now: at most
\* one write per second; times: when the progress writes of the run were made
onProgress(d, percent, now) ==
  IF now - d.lastProgressWrite > THROTTLE_MS
  THEN [Write(d, [exportProgress |-> percent, lastProgressWrite |-> now], "progress")
          EXCEPT !.times = Append(@, now)]
  ELSE d

\* Math.round(i / n * 100): the extraction spread over the whole range
ExtractPercent_Of100(i, n) == (2 * 100 * i + n) \div (2 * n)

\* Math.round(i / n * 60)
ExtractPercent(i, n) == (2 * 60 * i + n) \div (2 * n)

\* Math.min(99, 60 + Math.round(percent * 0.4))
CompositePercent(percent) == Min(99, 60 + (2 * 4 * percent + 10) \div (2 * 10))

\* the loop of phase 1 without its await: every clip's extraction is started
beginExtraction_AllAtOnce(s, i) ==
  [s EXCEPT !.pc = "extract", !.procs = DOMAIN s.clips,
            !.started = [k \in DOMAIN s.clips |-> k]]

\* one turn of the loop of phase 1: the extraction of clip i is started
beginExtraction(s, i) ==
  [s EXCEPT !.pc = "extract", !.procs = @ \cup { i }, !.started = Append(@, i)]

\* the try block is left, with the promise of the last await resolved or
\* rejected
leaveTry(s, outcome, error) ==
  [s EXCEPT !.pc = "finally", !.composite = FALSE, !.outcome = outcome, !.error = error]

\* the finally block left out: the promise settles, the directory stays
finallyRemove_Skipped(s) == [s EXCEPT !.pc = "settled"]

\* finally { await fs.remove(tempDir) }: the promise settles when the
\* removal has ended
finallyRemove(s) == [s EXCEPT !.pc = "settled", !.tempDir = FALSE]

\* the call with the check of the clips left out
callExportVideo_NoCheck(ls) ==
  [NoServerRun EXCEPT !.pc = "probing", !.clips = SortedVideoClips(ls),
                      !.probes = [i \in DOMAIN SortedVideoClips(ls) |-> "pending"]]

\* exportVideo() up to its first await: the clips are gathered, and the
\* probes of all clips are started, or the call fails for want of a clip
callExportVideo(ls) ==
  LET clips == SortedVideoClips(ls)
  IN  IF clips = << >>
      THEN [NoServerRun EXCEPT !.pc = "settled", !.outcome = "rejected",
                               !.error = NO_VIDEO_CLIPS]
      ELSE [NoServerRun EXCEPT !.pc = "probing", !.clips = clips,
                               !.probes = [i \in DOMAIN clips |-> "pending"]]

-----------------------------------------------------------------------------
(* The steps of a server export.                                           *)

\* what an awaited process or file operation ends with
Outcomes == { "ok", "failed" }

\* p.percent of the 'progress' events of the composite; 0 stands for a
\* missing value as well (p.percent || 0), 250 for an estimate beyond the end
ProgressPercents == { 0, 2, 100, 250 }

EXTRACT_FAILED == "ffmpeg exited with code 1"

MKDIR_FAILED == "EACCES: permission denied, mkdir"

\* POST /api/export/:projectId for a project that is not being exported
EPost ==
  /\ srv.pc \in { "idle", "reported" }
  /\ db' = Write([db EXCEPT !.log = << >>, !.times = << >>, !.lastProgressWrite = 0],
                 [exportStatus |-> "processing", exportFile |-> "null"], "processing")
  /\ srv' = callExportVideo(layers)
  /\ UNCHANGED << editorVars, plan, cli, parked, player >>

\* the callback of one ffprobe
EProbe ==
  /\ srv.pc = "probing"
  /\ \E i \in DOMAIN srv.probes, r \in ProbeResults :
       /\ srv.probes[i] = "pending"
       /\ srv' = [srv EXCEPT !.probes[i] = r]
  /\ UNCHANGED << editorVars, plan, cli, db, parked, player >>

\* Promise.all of the probes is resolved: fs.ensureDir(tempDir) is awaited
EProbed ==
  /\ srv.pc = "probing"
  /\ \A i \in DOMAIN srv.probes : srv.probes[i] # "pending"
  /\ srv' = [srv EXCEPT !.pc = "mkdir"]
  /\ UNCHANGED << editorVars, plan, cli, db, parked, player >>

\* the composite command is built from the temp files and run
beginComposite(s) == [s EXCEPT !.pc = "composite", !.composite = TRUE]

\* onProgress?.(percent, msg) is called; calls: what the run has passed
Called(s, phase, percent) ==
  [s EXCEPT !.calls = Append(@, [phase |-> phase, percent |-> percent])]

\* the turn of the loop for clip i (counted from 1), or the composite after
\* the last clip
EnterTurn(s, d, i, elapsed) ==
  IF i <= Len(s.clips)
  THEN /\ srv' = Called(beginExtraction(s, i), "extract",
                        ExtractPercent(i - 1, Len(s.clips)))
       /\ db' = onProgress(d, ExtractPercent(i - 1, Len(s.clips)), CallTime(d, elapsed))
       /\ plan' = plan
  ELSE /\ srv' = beginComposite(s)
       /\ db' = d
       /\ plan' = ServerPlan(layers, s.probes)

\* fs.ensureDir(tempDir) has ended; it is awaited outside the try block
EEnsureDir ==
  /\ srv.pc = "mkdir"
  /\ \E out \in Outcomes, elapsed \in Elapsed :
       IF out = "ok"
       THEN EnterTurn([srv EXCEPT !.madeDir = TRUE, !.tempDir = TRUE], db, 1, elapsed)
       ELSE /\ srv' = [srv EXCEPT !.pc = "settled", !.outcome = "rejected",
                                  !.error = MKDIR_FAILED]
            /\ UNCHANGED << plan, db >>
  /\ UNCHANGED << editorVars, cli, parked, player >>

\* the 'end' or 'error' event of an extraction
EExtractEnd ==
  /\ srv.pc = "extract"
  /\ \E i \in srv.procs, out \in Outcomes, elapsed1 \in Elapsed, elapsed2 \in Elapsed :
       LET s == [srv EXCEPT !.procs = @ \ { i }]
           percent == ExtractPercent(i, Len(srv.clips))
       IN  IF out = "ok"
           THEN EnterTurn(Called([s EXCEPT !.tempClips = @ + 1], "extract", percent),
                          onProgress(db, percent, CallTime(db, elapsed1)),
                          i + 1, elapsed2)
           ELSE /\ srv' = leaveTry(s, "rejected", EXTRACT_FAILED)
                /\ UNCHANGED << plan, db >>
  /\ UNCHANGED << editorVars, cli, parked, player >>

\* 'progress' events of one composite that are looked at
MaxProgressEvents == 2

\* a 'progress' event of the composite
ECompositeProgress ==
  /\ srv.pc = "composite"
  /\ srv.events < MaxProgressEvents
  /\ \E percent \in ProgressPercents, elapsed \in Elapsed :
       /\ srv' = Called([srv EXCEPT !.events = @ + 1], "composite",
                        CompositePercent(percent))
       /\ db' = onProgress(db, CompositePercent(percent), CallTime(db, elapsed))
  /\ UNCHANGED << editorVars, plan, cli, parked, player >>

\* the 'end' or 'error' event of the composite
ECompositeEnd ==
  /\ srv.pc = "composite"
  /\ \E out \in Outcomes :
       srv' = IF out = "ok" THEN leaveTry(srv, "resolved", "")
                            ELSE leaveTry(srv, "rejected", EXTRACT_FAILED)
  /\ UNCHANGED << editorVars, plan, cli, db, parked, player >>

\* fs.remove(tempDir) has ended
EFinally ==
  /\ srv.pc = "finally"
  /\ srv' = finallyRemove(srv)
  /\ UNCHANGED << editorVars, plan, cli, db, parked, player >>

\* the route without its .catch() handler
routeSettled_NoCatch(d, s) ==
  IF s.outcome = "resolved"
  THEN Write(d, [exportStatus |-> "done", exportProgress |-> 100, exportFile |-> "file"],
             "done")
  ELSE d

\* the route's .then() and .catch() handlers
routeSettled(d, s) ==
  IF s.outcome = "resolved"
  THEN Write(d, [exportStatus |-> "done", exportProgress |-> 100, exportFile |-> "file"],
             "done")
  ELSE Write(d, [exportStatus |-> "error", exportError |-> s.error], "error")

ESettled ==
  /\ srv.pc = "settled"
  /\ db' = routeSettled(db, srv)
  /\ srv' = [srv EXCEPT !.pc = "reported"]
  /\ UNCHANGED << editorVars, plan, cli, parked, player >>

\* GET /api/export/:projectId/status: the fields of the answer the claims
\* read; a missing or empty value is answered as null
getStatus(d) ==
  [status |-> d.exportStatus,
   progress |-> d.exportProgress,
   file |-> d.exportFile,
   error |-> IF d.exportError = "" THEN "null" ELSE d.exportError]


-----------------------------------------------------------------------------
(* The steps of a client export: ClientExport.exportVideo() in the         *)
(* browser, with the virtual filesystem and the listeners of FFmpeg.wasm.  *)

\* the message of the client, which is in Korean in the source
NO_VIDEO_CLIPS_CLIENT == "no video clips (client)"

LOAD_FAILED == "Failed to load /vendor/ffmpeg/ffmpeg.js"

FETCH_FAILED == "HTTP 500 fetching /api/videos/clip"

EXEC_FAILED == "ffmpeg.wasm worker error"

READ_FAILED == "ErrnoError: FS error"

\* what ff.exec() ends with: exit code 0, another exit code (the promise is
\* resolved all the same), or a rejected promise
ExecOutcomes == { "ok", "exit1", "throw" }

\* names in the virtual filesystem
rawName(i) == << "__raw", i >>

scaledName(i) == << "clip", i >>

audioName(i) == << "__audio", i >>

fontName(i) == << "/fonts/f", i >>

OUTPUT_NAME == << "output.mp4", 0 >>

\* a throw inside the async function: the returned promise is rejected
reject(c, error) == [c EXCEPT !.pc = "settled", !.outcome = "rejected", !.error = error]

\* the export button of the editor
CStart ==
  /\ cli.pc \in { "idle", "settled" }
  /\ cli' = [NoClientRun EXCEPT !.pc = "load", !.files = cli.files,
                                !.listeners = cli.listeners]
  /\ UNCHANGED << editorVars, plan, srv, db, parked, player >>

\* getFFmpeg() has ended; the log listener is added and the clips gathered
CLoaded ==
  /\ cli.pc = "load"
  /\ \E out \in Outcomes :
       cli' = IF out = "failed" THEN reject(cli, LOAD_FAILED)
              ELSE LET c == [cli EXCEPT !.listeners = @ \cup { "log" },
                                        !.clips = SortedVideoClips(layers)]
                   IN  IF c.clips = << >> THEN reject(c, NO_VIDEO_CLIPS_CLIENT)
                       ELSE [c EXCEPT !.pc = "meta"]
  /\ UNCHANGED << editorVars, plan, srv, db, parked, player >>

\* the metadata of the sources has been asked for; errors are caught
CMeta ==
  /\ cli.pc = "meta"
  /\ cli' = [cli EXCEPT !.pc = "fetch", !.i = 1]
  /\ UNCHANGED << editorVars, plan, srv, db, parked, player >>

\* fetchBytes(clipUrl) has ended; the download is written to the filesystem
CFetch ==
  /\ cli.pc = "fetch"
  /\ \E out \in Outcomes, header \in HeaderValues :
       cli' = IF out = "failed" THEN reject(cli, FETCH_FAILED)
              ELSE [cli EXCEPT !.pc = "scale", !.headers = Append(@, header),
                               !.files = @ \cup { rawName(cli.i) }]
  /\ UNCHANGED << editorVars, plan, srv, db, parked, player >>

\* after the last clip the fonts and the background audio are loaded
nextClip(c) ==
  IF c.i < Len(c.clips) THEN [c EXCEPT !.pc = "fetch", !.i = @ + 1]
  ELSE [c EXCEPT !.pc = "fonts"]

\* ff.exec() of the scaling has ended; the download is deleted
CScale ==
  /\ cli.pc = "scale"
  /\ \E out \in ExecOutcomes :
       cli' = IF out = "throw" THEN reject(cli, EXEC_FAILED)
              ELSE nextClip([cli EXCEPT
                     !.files = (IF out = "ok" THEN @ \cup { scaledName(cli.i) } ELSE @)
                               \ { rawName(cli.i) },
                     !.scaledClips = Append(@, scaledName(cli.i))])
  /\ UNCHANGED << editorVars, plan, srv, db, parked, player >>

\* the caption clips that have a text; they share one font key
CaptionsWithText(ls) ==
  SelectSeq(allSubtitleClips(ls), LAMBDA r : ClipAt(ls, r).text # "")

\* the fonts of the captions have been asked for; errors are caught
CFonts ==
  /\ cli.pc = "fonts"
  /\ \E out \in Outcomes :
       cli' = [cli EXCEPT !.pc = "audio", !.a = 1,
                 !.files = IF out = "ok" /\ CaptionsWithText(layers) # << >>
                           THEN @ \cup { fontName(0) } ELSE @]
  /\ UNCHANGED << editorVars, plan, srv, db, parked, player >>

\* the fetch of one background clip has ended; errors are caught
CAudio ==
  /\ cli.pc = "audio"
  /\ cli.a <= Len(allAudioClips(layers))
  /\ \E out \in Outcomes :
       cli' = [cli EXCEPT !.a = @ + 1, !.fetched = Append(@, out = "ok"),
                 !.files = IF out = "ok" THEN @ \cup { audioName(cli.a) } ELSE @]
  /\ UNCHANGED << editorVars, plan, srv, db, parked, player >>

\* the composite command is built, the progress listener added and ff.exec()
\* called
CBeginComposite ==
  /\ cli.pc = "audio"
  /\ cli.a > Len(allAudioClips(layers))
  /\ cli' = [cli EXCEPT !.pc = "composite", !.listeners = @ \cup { "progress" }]
  /\ plan' = ClientPlan(layers, cli.headers, cli.fetched)
  /\ UNCHANGED << editorVars, srv, db, parked, player >>

\* ff.exec() of the composite has ended
CCompositeEnd ==
  /\ cli.pc = "composite"
  /\ \E out \in ExecOutcomes :
       cli' = IF out = "throw" THEN reject(cli, EXEC_FAILED)
              ELSE [cli EXCEPT !.pc = "read", !.listeners = @ \ { "progress" },
                      !.files = IF out = "ok" /\ \A k \in DOMAIN cli.scaledClips :
                                                   cli.scaledClips[k] \in cli.files
                                THEN @ \cup { OUTPUT_NAME } ELSE @]
  /\ UNCHANGED << editorVars, plan, srv, db, parked, player >>

\* "Clean up VFS": the output, the scaled clips and the background audio
cleanUp(c) ==
  [c EXCEPT !.files = @ \ ({ OUTPUT_NAME } \cup { c.scaledClips[k] : k \in DOMAIN c.scaledClips }
                           \cup { audioName(k) : k \in DOMAIN c.fetched })]

\* ff.readFile('output.mp4') has ended
CRead ==
  /\ cli.pc = "read"
  /\ cli' = IF OUTPUT_NAME \in cli.files
            THEN [cleanUp(cli) EXCEPT !.pc = "settled", !.outcome = "resolved"]
            ELSE reject(cli, READ_FAILED)
  /\ UNCHANGED << editorVars, plan, srv, db, parked, player >>

-----------------------------------------------------------------------------
(* SpecExport: a saved project is exported by the server, again and again; *)
(* SpecClient: it is exported in the browser, again and again. Every       *)
(* awaited step may succeed or fail.                                       *)

\* saved projects: without a layer, with a hidden video layer only, with one
\* clip, with two clips whose order in time is not their order in the
\* layers, and with two clips, a caption and a background clip
ExportProjects ==
  { << >>,
    << Layer("L1", "video", 0, FALSE, << MediaVideoClip("v1", 0, 300) >>) >>,
    << Layer("L1", "video", 0, TRUE, << MediaVideoClip("v1", 0, 300) >>) >>,
    << Layer("L1", "video", 0, TRUE, << MediaVideoClip("v1", 75, 300) >>),
       Layer("L2", "video", 1, TRUE, << MediaVideoClip("v2", 0, 150) >>) >>,
    << Layer("L1", "video", 0, TRUE, << MediaVideoClip("v1", 75, 300) >>),
       Layer("L2", "video", 1, TRUE, << MediaVideoClip("v2", 0, 150) >>),
       Layer("L3", "subtitle", 2, TRUE, << MediaSubtitleClip("s1", 0, 150, "a") >>),
       Layer("L4", "audio", 3, TRUE,
             << MediaAudioClip("a1", 75, 300, "/uploads/a.mp3", IntV(50)) >>) >> }

InitExport ==
  /\ loaded = TRUE
  /\ layers \in ExportProjects
  /\ sourceVideoDuration = SOURCE_DURATION
  /\ selectedClipId = NoId
  /\ selectedLayerId = NoId
  /\ undoStack = << >>
  /\ redoStack = << >>
  /\ currentTime = 0
  /\ activeTool = "select"
  /\ nextId = 0
  /\ NoGesture
  /\ NoExport
  /\ player = NoPlayback
  /\ hist = HistInit

NextServer ==
  \/ EPost \/ EProbe \/ EProbed \/ EEnsureDir \/ EExtractEnd \/ ECompositeProgress
  \/ ECompositeEnd \/ EFinally \/ ESettled

NextClient ==
  \/ CStart \/ CLoaded \/ CMeta \/ CFetch \/ CScale \/ CFonts \/ CAudio
  \/ CBeginComposite \/ CCompositeEnd \/ CRead

SpecExport == InitExport /\ [][NextServer]_vars

SpecClient == InitExport /\ [][NextClient]_vars

\* the steps of a run that is under way: every process ends and the event
\* loop calls every callback that is due
NextRun ==
  \/ EProbe \/ EProbed \/ EEnsureDir \/ EExtractEnd \/ ECompositeEnd \/ EFinally
  \/ ESettled

SpecExportFair == SpecExport /\ WF_vars(NextRun)

-----------------------------------------------------------------------------
(* SpecOverlap: the route answers a POST for a project whose export is     *)
(* still running.  Each run is a call of exportVideo() with its own        *)
(* lastProgressWrite; the callbacks of the two runs take turns, and srv is  *)
(* the run whose callback is called next.                                  *)

\* POSTs that are answered while an export is running
MaxOverlaps == 1

\* the run has been started and the route has not yet written its result
ActiveRun(s) == s.pc \notin { "idle", "reported" }

\* POST /api/export/:projectId while the export of the project is running:
\* the route does not look at exportStatus and calls exportVideo() again
OPost ==
  /\ ActiveRun(srv)
  /\ ~ActiveRun(parked.run)
  /\ parked.posts < MaxOverlaps
  /\ parked' = [run |-> srv, lastProgressWrite |-> db.lastProgressWrite,
                posts |-> parked.posts + 1]
  /\ db' = Write([db EXCEPT !.lastProgressWrite = 0],
                 [exportStatus |-> "processing", exportFile |-> "null"], "processing")
  /\ srv' = callExportVideo(layers)
  /\ UNCHANGED << editorVars, plan, cli, player >>

\* the next callback the event loop calls belongs to the other run
OSwitch ==
  /\ ActiveRun(parked.run)
  /\ srv' = parked.run
  /\ parked' = [parked EXCEPT !.run = srv, !.lastProgressWrite = db.lastProgressWrite]
  /\ db' = [db EXCEPT !.lastProgressWrite = parked.lastProgressWrite]
  /\ UNCHANGED << editorVars, plan, cli, player >>

\* saved projects with one video clip at most
OverlapProjects == { ls \in ExportProjects : Len(SortedVideoClips(ls)) <= 1 }

InitOverlap == InitExport /\ layers \in OverlapProjects

\* the composite's 'progress' events are left out: the extraction loop
\* already calls onProgress
NextOverlap == EPost \/ NextRun \/ OPost \/ OSwitch

SpecOverlap == InitOverlap /\ [][NextOverlap]_vars

-----------------------------------------------------------------------------
(* The preview player: the play loop, its frame callbacks and the one      *)
(* video element.  Times are ticks; the element plays in real time.        *)

\* 0.08 s: syncVideoToTime seeks when the element is further off than this
SEEK_TOLERANCE == 12

\* 0.05 s, in half ticks: the play loop looks this far ahead for a clip
LOOKAHEAD_HALF_TICKS == 15

\* 0.5 s: a derived time this far before the clip's start is not trusted
SEEK_GUARD == 75

\* 0.02 s: the boundary transition fires this close to the clip's end
BOUNDARY_LEAD == 3

\* the playback surfaces of the player: one video element
Surfaces == { "videoEl" }

\* a source offset of whole ticks
SrcTicks(v) == v.n \div v.d

\* the first video clip of a visible layer, in array order, with
\* startTime <= t + lead and endTime > t; << >> if there is none
FindVideo(ls, t, leadHalfTicks) ==
  LET hits == SelectSeq(ClipRefs(ls), LAMBDA r :
                /\ ls[r.li].visible
                /\ ClipAt(ls, r).type = "video"
                /\ 2 * ClipAt(ls, r).startTime <= 2 * t + leadHalfTicks
                /\ ClipAt(ls, r).endTime > t)
  IN  IF hits = << >> THEN << >> ELSE << ClipAt(ls, Head(hits)) >>

\* the video clip of a visible layer that starts first at or after t; of two
\* that start together the one met first
RECURSIVE NearestNext(_, _, _, _)
NearestNext(ls, refs, t, best) ==
  IF refs = << >> THEN best
  ELSE LET c == ClipAt(ls, Head(refs))
           take == /\ ls[Head(refs).li].visible
                   /\ c.type = "video" /\ c.startTime >= t
                   /\ (best = << >> \/ c.startTime < best[1].startTime)
       IN  NearestNext(ls, Tail(refs), t, IF take THEN << c >> ELSE best)

\* videoEl.src = src: the element loads anew, paused, at position 0
setSrc(v, src) == [src |-> src, currentTime |-> 0, paused |-> TRUE, ready |-> FALSE]

\* videoEl.play()
play(v) == [v EXCEPT !.paused = FALSE]

\* syncVideoToTime(t)
syncVideoToTime(v, ls, t) ==
  LET found == FindVideo(ls, t, 0)
  IN  IF found = << >> THEN [v EXCEPT !.paused = TRUE]
      ELSE LET clip == found[1]
               v1 == IF v.src # clip.src THEN setSrc(v, clip.src) ELSE v
               vt == SrcTicks(clip.srcStart) + (t - clip.startTime)
           IN  IF Abs(v1.currentTime - vt) > SEEK_TOLERANCE
               THEN [v1 EXCEPT !.currentTime = vt] ELSE v1

\* requestAnimationFrame(playLoop)
requestFrame(p) ==
  [p EXCEPT !.frames = @ + 1, !.animFrameId = p.frames + 1, !.pending = @ \cup { p.frames + 1 }]

\* the pause branch without cancelAnimationFrame
onPlayStateChanged_NoCancel(p, ls, t, playing) ==
  IF playing
  THEN requestFrame([p EXCEPT !.lastBoundaryClipId = NoId,
                              !.video = play(syncVideoToTime(@, ls, t)),
                              !.lastTimestamp = 0])
  ELSE [p EXCEPT !.animFrameId = 0, !.video.paused = TRUE]

\* onPlayStateChanged(playing), at the editor time t
onPlayStateChanged(p, ls, t, playing) ==
  IF playing
  THEN requestFrame([p EXCEPT !.lastBoundaryClipId = NoId,
                              !.video = play(syncVideoToTime(@, ls, t)),
                              !.lastTimestamp = 0])
  ELSE [p EXCEPT !.pending = IF p.animFrameId # 0 THEN @ \ { p.animFrameId } ELSE @,
                 !.animFrameId = 0, !.video.paused = TRUE]

\* EditorState.setPlaying(v), which emits playStateChanged
setPlaying(p, ls, t, v) == onPlayStateChanged([p EXCEPT !.playing = v], ls, t, v)

\* the boundary transition of the play loop: the next clip's source is set on
\* the video element and sought to the clip's source start
boundaryTransition(v, ls, clip) ==
  LET nextVideo == NearestNext(ls, ClipRefs(ls), clip.endTime, << >>)
  IN  IF nextVideo = << >> THEN v
      ELSE play([(IF v.src # nextVideo[1].src THEN setSrc(v, nextVideo[1].src) ELSE v)
                   EXCEPT !.currentTime = SrcTicks(nextVideo[1].srcStart)])

\* the end test that lets a frame at exactly the total duration go on
reachedEnd_Past(newTime, dur) == newTime > dur

\* if (newTime >= dur): the frame has reached the end of the timeline
reachedEnd(newTime, dur) == newTime >= dur

\* playLoop(ts) while playing, at the editor time t: the player and the
\* editor time after the frame
playLoop(p, ls, t, ts, dur) ==
  LET found == FindVideo(ls, t, LOOKAHEAD_HALF_TICKS)
      timer == IF p.lastTimestamp # 0 THEN << t + (ts - p.lastTimestamp) >> ELSE << >>
      byVideo == found # << >> /\ p.video.ready /\ ~p.video.paused
      clip == found[1]
      derived == clip.startTime + (p.video.currentTime - SrcTicks(clip.srcStart))
      trusted == byVideo /\ ~(derived < clip.startTime - SEEK_GUARD)
      newTime == IF trusted THEN << derived >> ELSE timer
      boundary == /\ byVideo /\ newTime # << >>
                  /\ newTime[1] >= clip.endTime - BOUNDARY_LEAD
                  /\ p.lastBoundaryClipId # clip.id
      nextVideo == NearestNext(ls, ClipRefs(ls), clip.endTime, << >>)
      p1 == [p EXCEPT !.lastTimestamp = ts,
                      !.lastBoundaryClipId = IF boundary THEN clip.id ELSE @,
                      !.video = IF boundary THEN boundaryTransition(@, ls, clip) ELSE @,
                      !.last = [how |-> IF newTime = << >> THEN "none"
                                        ELSE IF trusted THEN "derived" ELSE "timer",
                                clip |-> IF found = << >> THEN NoId ELSE clip.id,
                                time |-> IF newTime = << >> THEN 0 ELSE newTime[1],
                                boundary |-> boundary,
                                next |-> IF boundary /\ nextVideo # << >>
                                         THEN nextVideo[1].id ELSE NoId,
                                srcSet |-> /\ boundary /\ nextVideo # << >>
                                           /\ nextVideo[1].src # p.video.src,
                                set |-> newTime # << >>]]
  IN  IF newTime = << >> THEN [p |-> requestFrame(p1), t |-> t]
      ELSE IF reachedEnd(newTime[1], dur)
      THEN [p |-> setPlaying([p1 EXCEPT !.video = syncVideoToTime(@, ls, 0)], ls, 0, FALSE),
            t |-> 0]
      ELSE [p |-> requestFrame([p1 EXCEPT !.video =
                                  syncVideoToTime(@, ls, Max(0, newTime[1]))]),
            t |-> Max(0, newTime[1])]

-----------------------------------------------------------------------------
(* Playback of a loaded project: the transport buttons, the ruler, the     *)
(* video element's loadeddata event and the frames of the play loop.       *)

\* the frame ids one playback session may use
MaxFrames == 11

\* the time between two frames, in ticks
FrameDeltas == { 5, 10 }

\* the ruler positions clicked
SeekTimes == { 40 }

\* a video clip of the source src shown from source time ss
PlayClip(id, s, e, ss, src) == VideoClip(id, s, e, ss, ss + (e - s), FALSE) @@ [src |-> src]

\* two clips of one source with a gap between them under a longer caption;
\* a source cut in two; two clips of two sources
PlayProjects ==
  { << Layer("L1", "video", 0, TRUE, << PlayClip("v1", 0, 30, 0, "a"), PlayClip("v2", 45, 75, 30, "a") >>),
       Layer("L2", "subtitle", 1, TRUE, << MediaSubtitleClip("s1", 0, 90, "hi") >>) >>,
    << Layer("L1", "video", 0, TRUE, << PlayClip("v1", 0, 30, 0, "a"), PlayClip("v2", 30, 60, 30, "a") >>) >>,
    << Layer("L1", "video", 0, TRUE, << PlayClip("v1", 0, 30, 0, "a"), PlayClip("v2", 30, 60, 150, "b") >>) >> }

\* the element plays on between two frames when it has data and is not paused
advance(v, delta) ==
  IF v.ready /\ ~v.paused THEN [v EXCEPT !.currentTime = @ + delta] ELSE v

\* the play and pause buttons and the space key: setPlaying(!isPlaying())
PlayToggle ==
  /\ player.playing \/ player.frames < MaxFrames
  /\ player' = setPlaying(player, layers, currentTime, ~player.playing)
  /\ UNCHANGED << editorVars, exportVars >>

\* btn-to-start and btn-to-end: setPlaying(false), then a seek
PlayTo(t) ==
  /\ player' = [setPlaying(player, layers, currentTime, FALSE)
                  EXCEPT !.video = syncVideoToTime(@, layers, t)]
  /\ currentTime' = t
  /\ UNCHANGED << loaded, layers, sourceVideoDuration, selectedClipId, selectedLayerId,
                  undoStack, redoStack, activeTool, nextId, drag, previewDrag, props,
                  rightClickInfo, hist, exportVars >>

PlayToStart == PlayTo(0)

PlayToEnd == PlayTo(getTotalDuration(loaded, layers, sourceVideoDuration))

\* a click on the ruler, playing or not: setCurrentTime, then onTimeChanged
PlaySeek ==
  \E t \in SeekTimes :
    /\ t # currentTime
    /\ player' = [player EXCEPT !.video = syncVideoToTime(@, layers, Max(0, t))]
    /\ currentTime' = Max(0, t)
    /\ UNCHANGED << loaded, layers, sourceVideoDuration, selectedClipId, selectedLayerId,
                    undoStack, redoStack, activeTool, nextId, drag, previewDrag, props,
                    rightClickInfo, hist, exportVars >>

\* the element has the first frame of its source (readyState >= 2)
PlayLoaded ==
  /\ player.video.src # "" /\ ~player.video.ready
  /\ player' = [player EXCEPT !.video.ready = TRUE]
  /\ UNCHANGED << editorVars, exportVars >>

\* the browser calls a pending frame callback
PlayFrame ==
  \E id \in player.pending, delta \in FrameDeltas :
    /\ player.frames < MaxFrames
    /\ LET ts == player.now + delta
           p == [player EXCEPT !.now = ts, !.pending = @ \ { id },
                               !.video = advance(@, delta)]
           r == IF ~p.playing THEN [p |-> p, t |-> currentTime]
                ELSE playLoop(p, layers, currentTime, ts,
                              getTotalDuration(loaded, layers, sourceVideoDuration))
       IN  /\ player' = r.p
           /\ currentTime' = r.t
    /\ UNCHANGED << loaded, layers, sourceVideoDuration, selectedClipId, selectedLayerId,
                    undoStack, redoStack, activeTool, nextId, drag, previewDrag, props,
                    rightClickInfo, hist, exportVars >>

InitPlay ==
  /\ loaded = TRUE
  /\ layers \in PlayProjects
  /\ sourceVideoDuration = SOURCE_DURATION
  /\ selectedClipId = NoId
  /\ selectedLayerId = NoId
  /\ undoStack = << >>
  /\ redoStack = << >>
  /\ currentTime = 0
  /\ activeTool = "select"
  /\ nextId = 0
  /\ NoGesture
  /\ NoExport
  /\ player = [NoPlayback EXCEPT !.video = syncVideoToTime(@, layers, 0)]
  /\ hist = HistInit

NextPlay == PlayToggle \/ PlayToStart \/ PlayToEnd \/ PlaySeek \/ PlayLoaded \/ PlayFrame

SpecPlay == InitPlay /\ [][NextPlay]_vars

-----------------------------------------------------------------------------
(* SpecRender: the frame the preview shows while paused, redrawn after     *)
(* every seek and when the video element gets the data of its source.      *)

\* the clip with the given id
ClipById(ls, id) ==
  ClipAt(ls, Head(SelectSeq(ClipRefs(ls), LAMBDA r : ClipAt(ls, r).id = id)))

\* Player.renderFrame() with the video element ready or not: the clips
\* painted on the canvas and the clips of _visibleBounds, first drawn first;
\* drawVideoClip paints nothing while the element has no frame
drawFrame(ls, t, ready) ==
  [kind |-> "frame", t |-> t, ready |-> ready,
   painted |-> SelectSeq(renderFrame(ls, t),
                         LAMBDA id : ClipById(ls, id).type = "video" => ready),
   bounds |-> renderFrame(ls, t)]

\* two overlapping clips of source a on one layer, two overlapping captions
\* on a second, a clip of source b on a third; the layers in four orders
RenderOrders == { << 0, 1, 2 >>, << 1, 0, 2 >>, << 2, 1, 0 >>, << 0, 2, 1 >> }

RenderProjects ==
  { << Layer("L1", "video", o[1], TRUE,
             << PlayClip("v1", 0, 150, 0, "a"), PlayClip("v2", 75, 225, 150, "a") >>),
       Layer("L2", "subtitle", o[2], vis,
             << MediaSubtitleClip("s1", 0, 150, text), MediaSubtitleClip("s2", 75, 150, "b") >>),
       Layer("L3", "video", o[3], TRUE, << PlayClip("v3", 150, 300, 0, "b") >>) >> :
    o \in RenderOrders, vis \in BOOLEAN, text \in { "", "a" } }

\* the times sought: 0, 0.5 s, 1 s, 1.5 s, 2 s
RenderTimes == { 0, 75, 150, 225, 300 }

\* a seek while paused: onTimeChanged syncs the element and redraws
RSeek ==
  \E t \in RenderTimes :
    /\ t # currentTime
    /\ currentTime' = t
    /\ player' = [player EXCEPT !.video = syncVideoToTime(@, layers, t)]
    /\ plan' = drawFrame(layers, t, player'.video.ready)
    /\ UNCHANGED << loaded, layers, sourceVideoDuration, selectedClipId, selectedLayerId,
                    undoStack, redoStack, activeTool, nextId, drag, previewDrag, props,
                    rightClickInfo, hist, srv, cli, db, parked >>

\* loadeddata while paused: the frame is drawn again
RLoaded ==
  /\ player.video.src # "" /\ ~player.video.ready
  /\ player' = [player EXCEPT !.video.ready = TRUE]
  /\ plan' = drawFrame(layers, currentTime, TRUE)
  /\ UNCHANGED << editorVars, srv, cli, db, parked >>

InitRender ==
  /\ loaded = TRUE
  /\ layers \in RenderProjects
  /\ sourceVideoDuration = SOURCE_DURATION
  /\ selectedClipId = NoId
  /\ selectedLayerId = NoId
  /\ undoStack = << >>
  /\ redoStack = << >>
  /\ currentTime = 0
  /\ activeTool = "select"
  /\ nextId = 0
  /\ NoGesture
  /\ srv = NoServerRun /\ cli = NoClientRun /\ db = NoExportRecord /\ parked = NoParked
  /\ player = [NoPlayback EXCEPT !.video = syncVideoToTime(@, layers, 0)]
  /\ plan = drawFrame(layers, 0, FALSE)
  /\ hist = HistInit

NextRender == RSeek \/ RLoaded

SpecRender == InitRender /\ [][NextRender]_vars

-----------------------------------------------------------------------------
(* The spatial filter of a video clip: computeClipFilter() of the server   *)
(* exporter, copied in the client exporter.  Numbers are exact fractions.  *)

OUTPUT_H == 1920

\* Math.max(a, b)
NumMax(a, b) ==
  IF IsNum(a) /\ IsNum(b) THEN (IF NumLess(a, b) THEN b ELSE a) ELSE NaN

\* a / b for b # 0
NumDiv(a, b) ==
  IF IsNum(a) /\ IsNum(b) /\ b.n # 0
  THEN NumMul(a, Rat(b.d, b.n))
  ELSE NaN

\* n % 2 === 0
IsEven(v) == IsNum(v) /\ v.d = 1 /\ v.n % 2 = 0

\* evenFloor(n) = Math.max(2, n % 2 === 0 ? n : n - 1)
evenFloor(n) == NumMax(IntV(2), IF IsEven(n) THEN n ELSE NumSub(n, IntV(1)))

\* computeClipFilter(clip, srcW, srcH, outputWidth, outputHeight) for
\* fit 'cover' and a source of known size: the scale target fw x fh, the
\* crop of the filter string and the overlay position
computeClipFilter(clip, srcW, srcH, outputWidth, outputHeight) ==
  LET scaleW == OrElse(clip.width, outputWidth)
      scaleH == OrElse(clip.height, outputHeight)
      cx == OrElse(clip.x, IntV(0))
      cy == OrElse(clip.y, IntV(0))
      zero == IntV(0)
      fx == NumMax(zero, NumSub(zero, cx))
      fy == NumMax(zero, NumSub(zero, cy))
      fw == evenFloor(NumMax(IntV(1), NumSub(NumMin(outputWidth, NumAdd(cx, scaleW)),
                                            NumMax(zero, cx))))
      fh == evenFloor(NumMax(IntV(1), NumSub(NumMin(outputHeight, NumAdd(cy, scaleH)),
                                            NumMax(zero, cy))))
      srcAspect == NumDiv(srcW, srcH)
      tgtAspect == NumDiv(scaleW, scaleH)
      wide == ~NumLess(srcAspect, tgtAspect)
      sf == IF wide THEN NumDiv(scaleH, srcH) ELSE NumDiv(scaleW, srcW)
      offX == IF wide THEN NumDiv(NumSub(NumMul(srcW, sf), scaleW), IntV(2)) ELSE zero
      offY == IF wide THEN zero ELSE NumDiv(NumSub(NumMul(srcH, sf), scaleH), IntV(2))
      srcCropX == NumMax(zero, NumDiv(NumAdd(fx, offX), sf))
      srcCropY == NumMax(zero, NumDiv(NumAdd(fy, offY), sf))
      srcCropW == NumMax(IntV(1), NumMin(NumSub(srcW, srcCropX), NumDiv(fw, sf)))
      srcCropH == NumMax(IntV(1), NumMin(NumSub(srcH, srcCropY), NumDiv(fh, sf)))
  IN  [kind |-> "filter", fw |-> fw, fh |-> fh, sf |-> sf,
       cropW |-> NumRound(srcCropW), cropH |-> NumRound(srcCropH),
       cropX |-> NumRound(srcCropX), cropY |-> NumRound(srcCropY),
       overlayX |-> NumMax(zero, cx), overlayY |-> NumMax(zero, cy)]

\* clip positions: on the canvas, half a pixel in (the X input of the panel
\* takes any number), partly off to the left by 2 and by 200 pixels, at and
\* past the right edge
FilterXs == { IntV(0), Num(1, 2), IntV(-2), IntV(-200), IntV(541), IntV(1080), IntV(-1100) }

FilterYs == { IntV(0), IntV(-100) }

\* clip sizes: unset, half the canvas, small and odd, wider than the canvas
FilterWidths == { Undef, IntV(540), IntV(21), IntV(1081) }

FilterHeights == { Undef, IntV(960) }

\* sources: full HD landscape and portrait, two small clips, 4K
FilterSources ==
  { << 1920, 1080 >>, << 1080, 1920 >>, << 300, 200 >>, << 270, 480 >>, << 3840, 2160 >> }

\* a video clip placed by the editor and the size ffprobe reports of its source
FilterInputs ==
  { [kind |-> "clip", x |-> x, y |-> y, width |-> w, height |-> h,
     srcW |-> IntV(s[1]), srcH |-> IntV(s[2])] :
    x \in FilterXs, y \in FilterYs, w \in FilterWidths, h \in FilterHeights,
    s \in FilterSources }

\* the exporter compiles the clip's filter
FCompute ==
  /\ plan.kind = "clip"
  /\ plan' = computeClipFilter(plan, plan.srcW, plan.srcH, IntV(OUTPUT_W), IntV(OUTPUT_H))
               @@ [clip |-> plan]
  /\ UNCHANGED << editorVars, srv, cli, db, parked, player >>

InitFilter ==
  /\ loaded = TRUE
  /\ layers = DefaultProject
  /\ sourceVideoDuration = SOURCE_DURATION
  /\ selectedClipId = NoId
  /\ selectedLayerId = NoId
  /\ undoStack = << >>
  /\ redoStack = << >>
  /\ currentTime = 0
  /\ activeTool = "select"
  /\ nextId = 0
  /\ NoGesture
  /\ srv = NoServerRun /\ cli = NoClientRun /\ db = NoExportRecord /\ parked = NoParked
  /\ player = NoPlayback
  /\ plan \in FilterInputs
  /\ hist = HistInit

NextFilter == FCompute

SpecFilter == InitFilter /\ [][NextFilter]_vars

-----------------------------------------------------------------------------
(* The drawtext stage of a caption, as both exporters write it: the text   *)
(* between single quotes and the x and y options.  A text is a sequence of *)
(* characters.                                                             *)

PERCENT == "%"
QUOTE == "'"
COLON == ":"
NEWLINE == "\n"
BACKSLASH == "\\"

\* the characters a caption is made of here: a letter and the five that the
\* filter string treats specially
TextChars == { "a", PERCENT, QUOTE, COLON, NEWLINE, BACKSLASH }

\* the longest caption text
MaxTextLen == 3

\* text.replace(/ch/g, with): every ch is replaced, from left to right
RECURSIVE replaceAll(_, _, _)
replaceAll(text, ch, with) ==
  IF text = << >> THEN << >>
  ELSE (IF Head(text) = ch THEN with ELSE << Head(text) >>) \o replaceAll(Tail(text), ch, with)

\* clip.text.replace(/%/g, '%%').replace(/'/g, "\\'").replace(/:/g, '\\:').replace(/\n/g, '\\n')
escapeText(text) ==
  replaceAll(replaceAll(replaceAll(replaceAll(text,
    PERCENT, << PERCENT, PERCENT >>),
    QUOTE, << BACKSLASH, QUOTE >>),
    COLON, << BACKSLASH, COLON >>),
    NEWLINE, << BACKSLASH, "n" >>)

\* xExpr: the number the x option starts with; align is clip.align || 'center'
xBase(clip, outputWidth) ==
  IF clip.align = "left" THEN OrElse(clip.x, IntV(0))
  ELSE IF clip.align = "right" THEN Nullish(clip.x, IntV(outputWidth))
  ELSE OrElse(clip.x, NumRound(Rat(outputWidth, 2)))

\* xExpr: what is subtracted: nothing, text_w or text_w/2, in halves of text_w
xShiftHalves(clip) ==
  IF clip.align = "left" THEN 0 ELSE IF clip.align = "right" THEN 2 ELSE 1

\* the drawtext stage of a caption with a text
drawtext(clip, outputWidth) ==
  [kind |-> "drawtext", clip |-> clip,
   text |-> << QUOTE >> \o escapeText(clip.text) \o << QUOTE >>,
   x |-> xBase(clip, outputWidth), shift |-> xShiftHalves(clip),
   y |-> Nullish(clip.y, IntV(100))]

RECURSIVE TextsUpTo(_)
TextsUpTo(n) ==
  IF n = 0 THEN { << >> }
  ELSE LET shorter == TextsUpTo(n - 1)
       IN  shorter \cup { Append(t, c) : t \in { s \in shorter : Len(s) = n - 1 }, c \in TextChars }

\* anchors: unset, the canvas origin, a place on the canvas
CaptionXs == { Undef, IntV(0), IntV(300) }

CaptionYs == { Undef, IntV(0), IntV(300) }

CaptionAligns == { "undef", "left", "right", "center" }

\* captions with a text, as the editor stores them
CaptionInputs ==
  { [kind |-> "caption", text |-> t, align |-> a, x |-> x, y |-> y] :
    t \in TextsUpTo(MaxTextLen) \ { << >> }, a \in CaptionAligns, x \in CaptionXs, y \in CaptionYs }

\* the exporter writes the caption's stage
TDrawtext ==
  /\ plan.kind = "caption"
  /\ plan' = drawtext(plan, OUTPUT_W)
  /\ UNCHANGED << editorVars, srv, cli, db, parked, player >>

InitSubtitle ==
  /\ loaded = TRUE
  /\ layers = DefaultProject
  /\ sourceVideoDuration = SOURCE_DURATION
  /\ selectedClipId = NoId
  /\ selectedLayerId = NoId
  /\ undoStack = << >>
  /\ redoStack = << >>
  /\ currentTime = 0
  /\ activeTool = "select"
  /\ nextId = 0
  /\ NoGesture
  /\ srv = NoServerRun /\ cli = NoClientRun /\ db = NoExportRecord /\ parked = NoParked
  /\ player = NoPlayback
  /\ plan \in CaptionInputs
  /\ hist = HistInit

NextSubtitle == TDrawtext

SpecSubtitle == InitSubtitle /\ [][NextSubtitle]_vars

-----------------------------------------------------------------------------
(* SpecLayers: the operations that add, remove and renumber layers, on the  *)
(* default project.                                                         *)

MaxLayerActions == 3

InitLayers ==
  /\ loaded = TRUE
  /\ layers = DefaultProject
  /\ sourceVideoDuration = SOURCE_DURATION
  /\ selectedClipId = NoId
  /\ selectedLayerId = NoId
  /\ undoStack = << >>
  /\ redoStack = << >>
  /\ currentTime = 0
  /\ activeTool = "select"
  /\ nextId = 0
  /\ NoGesture
  /\ NoExport
  /\ player = NoPlayback
  /\ hist = HistInit

LayerBudget == hist.n < MaxLayerActions

LAddSubtitleLayer == LayerBudget /\ onAddSubtitleLayer

LAddAudioLayer == LayerBudget /\ onAddAudioLayer(0)

\* a clip is taken by its body
LBeginMove == LayerBudget /\ \E p \in ClipPairs : beginDrag("move", p[1], p[2], 25)

\* the pointer goes to a track or to the zone below the last track
LMouseMove == \E track \in 0..Len(layers) : onMouseMove(0, track)

LMouseUp == onMouseUp

\* EditorState.removeLayer(layerId)
LRemoveLayer ==
  /\ LayerBudget
  /\ Idle
  /\ \E id \in LayerIds(layers) :
       /\ Commit(removeLayer(Model, id))
       /\ hist' = UiHist("removeLayer", Arg(id, NoId, 0))
  /\ UNCHANGED << sourceVideoDuration, exportVars, currentTime, activeTool, nextId, drag,
                  previewDrag, props, rightClickInfo, player >>

LLabelDrop ==
  /\ LayerBudget
  /\ \E id \in LayerIds(layers), idx \in 0..(Len(layers) - 1) : onLabelDrop(id, idx)

NextLayers ==
  \/ LAddSubtitleLayer \/ LAddAudioLayer \/ LBeginMove \/ LMouseMove \/ LMouseUp
  \/ LRemoveLayer \/ LLabelDrop

SpecLayers == InitLayers /\ [][NextLayers]_vars


-----------------------------------------------------------------------------
(* Properties of the snapshot history, checked under SpecModel.            *)

\* C1: saveSnapshot(), then model mutations only, then undo() leaves the
\* layer list equal to what it was when saveSnapshot() was called.
C1_UndoRestoresSnapshot ==
  (hist.op = "undo" /\ hist.wasClean) => layers = hist.snapAt

\* C2: with a non-empty undo stack, undo() immediately followed by redo()
\* leaves the layer list and the undo stack as they were before the undo().
C2_UndoRedoRoundTrip ==
  (hist.op = "redo" /\ hist.prevPre.valid /\ canUndo(hist.prevPre.m))
    => /\ layers = hist.prevPre.m.layers
       /\ undoStack = hist.prevPre.m.undo

\* C5: after saveSnapshot() canRedo() is false, and redo() with nothing to
\* redo changes neither layers nor stacks nor selection.
C5_SnapshotClearsRedo ==
  /\ hist.op = "saveSnapshot" => ~canRedo(Model)
  /\ (hist.op = "redo" /\ ~canRedo(hist.pre.m)) => Model = hist.pre.m

\* redo() was called right after a saveSnapshot() that discarded a redo branch
C5_Witness == hist.op = "redo" /\ hist.lostRedo /\ selectedClipId # NoId

\* C4: the undo stack never holds more than 50 snapshots, and saveSnapshot()
\* on a full stack discards the oldest entry.
C4_UndoStackBounded ==
  /\ Len(undoStack) <= MAX_HISTORY
  /\ (hist.op = "edit" /\ hist.pre.valid)
       => /\ Len(hist.pre.m.undo) = MAX_HISTORY
          /\ undoStack = Append(Tail(hist.pre.m.undo), JsonClone(hist.pre.m.layers))

\* an edit's saveSnapshot() ran on a full stack whose oldest and newest entries differ
C4_Witness ==
  /\ hist.op = "edit" /\ hist.pre.valid
  /\ hist.pre.m.undo[1] # hist.pre.m.undo[MAX_HISTORY]

-----------------------------------------------------------------------------
(* Properties of splitting, checked under SpecCut.                         *)

\* the clip the last split was aimed at, as it was before
SplitTarget ==
  LET at == getClip(hist.pre.m, hist.arg.layerId, hist.arg.clipId) IN
  [found |-> at[1] # 0, li |-> at[1], ci |-> at[2]]

\* the last step was a split request on a clip that is not filtered, at a
\* time strictly inside it
SplitCase ==
  /\ hist.op \in { "razor", "ctxsplit", "ctxcut", "cutAtPlayhead" }
  /\ SplitTarget.found
  /\ LET c == hist.pre.m.layers[SplitTarget.li].clips[SplitTarget.ci] IN
     ~c.isFiltered /\ c.startTime < hist.arg.t /\ hist.arg.t < c.endTime

\* C6: splitting a non-filtered clip at t strictly inside it leaves two clips
\* covering [startTime,t] and [t,endTime]; the first keeps id and srcStart, the
\* second has a new id and the original srcEnd; for a clip with a source
\* window both meet at srcStart + (srcEnd-srcStart)*(t-startTime)/(endTime-
\* startTime); every other field is copied, and nothing else changes.
C6_SplitHalves ==
  SplitCase =>
    LET pl == hist.pre.m.layers
        li == SplitTarget.li
        ci == SplitTarget.ci
        c == pl[li].clips[ci]
        t == hist.arg.t
        post == layers[li].clips
        news == { j \in DOMAIN post : post[j].id \notin ClipIds(pl) }
    IN  /\ Len(layers) = Len(pl)
        /\ \A i \in DOMAIN pl : i # li => layers[i] = pl[i]
        /\ Len(post) = Len(pl[li].clips) + 1
        /\ \A j \in DOMAIN pl[li].clips : j # ci => post[j] = pl[li].clips[j]
        /\ Cardinality(news) = 1
        /\ LET a == post[ci]
               b == post[CHOOSE j \in news : TRUE]
           IN  /\ a.id = c.id /\ a.startTime = c.startTime /\ a.endTime = t
               /\ b.startTime = t /\ b.endTime = c.endTime
               /\ a.srcStart = c.srcStart /\ b.srcEnd = c.srcEnd
               /\ a.srcEnd = b.srcStart
               /\ (IsNum(c.srcStart) /\ IsNum(c.srcEnd)) =>
                    NumMul(NumSub(a.srcEnd, c.srcStart), IntV(c.endTime - c.startTime))
                      = NumMul(NumSub(c.srcEnd, c.srcStart), IntV(t - c.startTime))
               /\ \A e \in { a, b } :
                    e.type = c.type /\ e.isFiltered = c.isFiltered /\ e.x = c.x

\* a razor click split a clip whose source window is half as long as the clip,
\* at a point that is no whole tick of source time
C6_Witness ==
  /\ SplitCase /\ hist.op = "razor"
  /\ \E i \in DOMAIN layers : \E j \in DOMAIN layers[i].clips :
       IsNum(layers[i].clips[j].srcStart) /\ layers[i].clips[j].srcStart.d # 1

\* the filtered clips of the layer list before the last step
FilteredBefore ==
  { r \in { ClipRefs(hist.pre.m.layers)[i] : i \in DOMAIN ClipRefs(hist.pre.m.layers) } :
      ClipAt(hist.pre.m.layers, r).isFiltered }

FilteredIn(clips) == Cardinality({ j \in DOMAIN clips : clips[j].isFiltered })

CutCase == hist.op \in { "razor", "ctxsplit", "ctxcut", "cutAtPlayhead" } /\ hist.pre.valid

\* C8 (as stated): no cut-at-playhead, razor click or context-menu split
\* changes startTime, endTime, srcStart or srcEnd of a filtered clip, or the
\* number of clips in its layer.
C8_FilteredLayerUntouched ==
  CutCase =>
    \A r \in FilteredBefore :
      /\ r.li \in DOMAIN layers /\ r.ci \in DOMAIN layers[r.li].clips
      /\ layers[r.li].clips[r.ci] = ClipAt(hist.pre.m.layers, r)
      /\ Len(layers[r.li].clips) = Len(hist.pre.m.layers[r.li].clips)

\* C8 (amended): no cut-at-playhead, razor click or context-menu split
\* changes a filtered clip, and the number of filtered clips in its layer
\* stays the same.
C8_FilteredNeverSplit ==
  CutCase =>
    \A r \in FilteredBefore :
      /\ r.li \in DOMAIN layers /\ r.ci \in DOMAIN layers[r.li].clips
      /\ layers[r.li].clips[r.ci] = ClipAt(hist.pre.m.layers, r)
      /\ FilteredIn(layers[r.li].clips) = FilteredIn(hist.pre.m.layers[r.li].clips)

\* the context menu's split was used on a filtered clip with the playhead
\* strictly inside it
C8_Witness ==
  /\ hist.op = "ctxsplit" /\ SplitTarget.found
  /\ LET c == hist.pre.m.layers[SplitTarget.li].clips[SplitTarget.ci] IN
     c.isFiltered /\ c.startTime < hist.arg.t /\ hist.arg.t < c.endTime

-----------------------------------------------------------------------------
(* Properties of the durations, checked under SpecDur.                     *)

AllClips == { ClipAt(layers, ClipRefs(layers)[i]) : i \in DOMAIN ClipRefs(layers) }

\* the greatest endTime of the project's clips (there being one)
MaxEndTime == CHOOSE e \in { c.endTime : c \in AllClips } : \A c \in AllClips : c.endTime <= e

Fallback == IF sourceVideoDuration # 0 THEN sourceVideoDuration ELSE DEFAULT_DURATION

\* C9: getTotalDuration() is the greatest endTime of all clips of all layers
\* when the project has a clip, and the fallback (sourceVideoDuration, else
\* 60 s) only when it has none.
C9_TotalDurationIsMaxEnd ==
  hist.op = "getTotalDuration" =>
    hist.result = IntV(IF AllClips # {} THEN MaxEndTime ELSE Fallback)

\* C10: for a project with a video clip, the duration the export renders is
\* the editor's total duration, the greatest endTime of all clips.
C10_ExportDurationIsTotal ==
  (hist.op = "exportVideo" /\ \E c \in AllClips : c.type = "video") =>
    /\ hist.result = IntV(getTotalDuration(loaded, layers, sourceVideoDuration))
    /\ hist.result = IntV(MaxEndTime)

-----------------------------------------------------------------------------
(* Property of trims and splits, checked under SpecTrim.                   *)

\* C7: every video clip stays as long on the timeline as its source window
\* is (endTime - startTime = srcEnd - srcStart) through every trim by a
\* handle, snapped or not, and every split.
C7_TrimKeepsLength ==
  \A c \in AllClips :
    c.type = "video" => NumSub(c.srcEnd, c.srcStart) = IntV(c.endTime - c.startTime)

-----------------------------------------------------------------------------
(* Property of the gestures, checked under SpecUI.                         *)

\* C3: whenever a user action has changed the layer list, saveSnapshot() was
\* called in it before the first change, so that the top of the undo stack is
\* the list the action began with and one undo() brings that list back.
C3_SnapshotBeforeMutation ==
  (hist.n > 0 /\ layers # hist.base) =>
    /\ canUndo(Model)
    /\ undoStack[Len(undoStack)] = JsonClone(hist.base)
    /\ undo(Model).layers = JsonClone(hist.base)

-----------------------------------------------------------------------------
(* Properties of the export plan, checked under SpecPlan.                  *)

IsExportPlan == plan.kind \in { "server", "client" }

\* the overlay and drawtext stages of the compiled plan
VisualStages ==
  { plan.overlays[i] : i \in DOMAIN plan.overlays } \cup { plan.subs[i] : i \in DOMAIN plan.subs }

\* the plan shows the clip at time t: a stage of the clip is enabled
EnabledAt(id, t) == \E s \in VisualStages : s.clip = id /\ between(t, s.from, s.to)

\* the preview draws the clip at time t
DrawnAt(id, t) == \E i \in DOMAIN renderFrame(layers, t) : renderFrame(layers, t)[i] = id

VisualClips == { c \in AllClips : c.type \in { "video", "subtitle" } }

\* C11: in a compiled plan every clip that has a stage is enabled exactly at
\* the times t with startTime <= t < endTime, and every clip is enabled at
\* exactly the times at which the preview draws it; at t = endTime it is off
\* in both.
C11_EnabledHalfOpen ==
  IsExportPlan =>
    \A c \in VisualClips, t \in PlanTimes :
      /\ EnabledAt(c.id, t) <=> DrawnAt(c.id, t)
      /\ (\E s \in VisualStages : s.clip = c.id) =>
           (EnabledAt(c.id, t) <=> (c.startTime <= t /\ t < c.endTime))


\* place of the clip's stage in the order the plan composites: the overlays
\* first, then the drawtext stages (0: the clip has no stage)
CompositePos(id) ==
  IF \E i \in DOMAIN plan.overlays : plan.overlays[i].clip = id
  THEN CHOOSE i \in DOMAIN plan.overlays : plan.overlays[i].clip = id
  ELSE IF \E i \in DOMAIN plan.subs : plan.subs[i].clip = id
  THEN Len(plan.overlays) + (CHOOSE i \in DOMAIN plan.subs : plan.subs[i].clip = id)
  ELSE 0

\* C12: of two clips the preview draws at the same time, the one it draws
\* later (on top) is also composited later in the compiled plan.
C12_SameStacking ==
  IsExportPlan =>
    \A t \in PlanTimes :
      LET frame == renderFrame(layers, t)
      IN  \A i, j \in DOMAIN frame :
            i < j => CompositePos(frame[i]) < CompositePos(frame[j])


\* the report says the video clip has an audio stream
ReportedAudio(report) == report \in { "audio", "1" }

\* C13: no audio stage of the compiled plan reads the audio stream of a video
\* clip that was reported to have no audio (a failed probe and a missing
\* header included), and the mix takes exactly the labels that were produced.
C13_NoAudioOfSilentClip ==
  IsExportPlan =>
    /\ \A i \in DOMAIN plan.audio :
         LET stage == plan.audio[i]
         IN  /\ stage.input + 1 \in DOMAIN plan.inputs
             /\ plan.inputs[stage.input + 1].clip = stage.clip
             /\ ~stage.bg => ReportedAudio(plan.reports[stage.input + 1])
    /\ plan.labels = [i \in DOMAIN plan.audio |-> plan.audio[i].label]
    /\ Len(plan.labels) > 1 =>
         /\ plan.mix.op = "amix"
         /\ plan.mix.n = Len(plan.labels)
         /\ plan.mix.inputs = plan.labels

\* a plan with a silent and a failed or unmarked clip beside two audio stages
C13_Witness ==
  /\ IsExportPlan
  /\ \E i, j \in DOMAIN plan.reports :
       /\ plan.reports[i] \in { "silent", "0" }
       /\ plan.reports[j] \in { "failed", "null" }
  /\ plan.mix.op = "amix"


\* V: the video clips of the plan that were reported to have audio
AudibleClips == Cardinality({ i \in DOMAIN plan.reports : ReportedAudio(plan.reports[i]) })

\* B: the background audio clips of the project that is exported
BackgroundClips == Len(allAudioClips(layers))

\* how many operations of that name the audio stages hold
OpCount(name) ==
  Cardinality({ p \in (DOMAIN plan.audio) \X (1 .. 4) :
                  p[2] \in DOMAIN plan.audio[p[1]].ops /\ plan.audio[p[1]].ops[p[2]].op = name })

\* C14: with V audible video clips and B background clips the plan has V+B
\* audio streams, V delay and B volume operations; it maps no audio for
\* V+B = 0, the single stream for V+B = 1 and one normalized mix of V+B
\* inputs for V+B > 1.
C14_AudioMixShape ==
  IsExportPlan =>
    LET n == AudibleClips + BackgroundClips
    IN  /\ Len(plan.audio) = n
        /\ OpCount("adelay") = AudibleClips
        /\ OpCount("volume") = BackgroundClips
        /\ n = 0 => plan.map = "null" /\ plan.mix.op = "none"
        /\ n = 1 => plan.map = plan.audio[1].label /\ plan.mix.op = "none"
        /\ n > 1 => /\ plan.map = "amixed"
                    /\ plan.mix.op = "amix"
                    /\ plan.mix.n = n
                    /\ plan.mix.normalize = 1


\* the stage holds that operation with that parameter
HasOp(stage, name, arg) ==
  \E k \in DOMAIN stage.ops : stage.ops[k].op = name /\ stage.ops[k].arg = arg

\* the background stages of the plan
BackgroundStages == { plan.audio[i] : i \in { j \in DOMAIN plan.audio : plan.audio[j].bg } }

\* C15: in the server's and in the client's plan every background audio clip
\* is scaled by its volume and delayed to its startTime, and both exporters
\* emit the same operations with the same parameters for the same project.
C15_SameBackgroundStage ==
  IsExportPlan =>
    LET offset == Len(SortedVideoClips(layers))
        server == ServerAudioStages(layers, offset, plan.duration)
        client == ClientAudioStages(layers, offset,
                                    [i \in DOMAIN allAudioClips(layers) |-> TRUE])
    IN  /\ \A s \in BackgroundStages :
             LET clip == CHOOSE c \in AllClips : c.id = s.clip
             IN  /\ HasOp(s, "volume", VolumeOf(clip).n)
                 /\ HasOp(s, "adelay", DelayMs(clip.startTime))
        /\ \A i \in DOMAIN server : server[i].ops = client[i].ops


-----------------------------------------------------------------------------
(* Properties of the export runs, checked under SpecExport (the server)    *)
(* and SpecClient (the browser).                                           *)

\* the saved project has no video clip in a visible layer
NoVisibleVideoClip == SortedVideoClips(layers) = << >>

\* the promise returned by the server's exportVideo() is settled
ServerSettled == srv.pc \in { "settled", "reported" }

\* C16: an export of a project without a video clip in a visible layer is
\* rejected with "No video clips found" before any probe, any creation of
\* the temp directory and any extraction, and the route then writes the
\* status 'error' with that message.
C16_NoClipFailsFirst ==
  (srv.pc # "idle" /\ NoVisibleVideoClip) =>
    /\ ServerSettled
    /\ srv.outcome = "rejected" /\ srv.error = NO_VIDEO_CLIPS
    /\ srv.probes = << >> /\ ~srv.madeDir /\ ~srv.tempDir
    /\ srv.started = << >> /\ srv.procs = {} /\ ~srv.composite
    /\ srv.pc = "reported" =>
         /\ db.exportStatus = "error" /\ db.exportError = NO_VIDEO_CLIPS
         /\ db.log = << "processing", "error" >>

\* a project whose only video layer is hidden was exported and the route has
\* written the result
C16_Witness ==
  /\ layers # << >> /\ NoVisibleVideoClip
  /\ srv.pc = "reported" /\ db.exportStatus = "error"

\* the same in the browser (under SpecClient): the run is rejected after
\* FFmpeg.wasm was loaded, before anything is fetched or written
ClientNoClipFailsFirst ==
  (cli.pc \notin { "idle", "load" } /\ NoVisibleVideoClip) =>
    /\ cli.pc = "settled" /\ cli.outcome = "rejected"
    /\ cli.error \in { NO_VIDEO_CLIPS_CLIENT, LOAD_FAILED }
    /\ cli.files = {} /\ cli.headers = << >> /\ cli.fetched = << >>


\* C17: when the promise of the server's exportVideo() settles after the
\* temp directory was created (the composite succeeded, an extraction failed
\* or the composite failed), the temp directory has been removed.
C17_TempDirRemoved == (ServerSettled /\ srv.madeDir) => ~srv.tempDir

\* the extraction of the second clip failed after the first was extracted
\* into the temp directory, and the promise is rejected
C17_Witness ==
  /\ srv.pc = "settled" /\ srv.madeDir /\ srv.outcome = "rejected"
  /\ srv.tempClips = 1 /\ Len(srv.started) = 2


\* files of a client export that are meant to go: downloads, scaled clips,
\* background audio and the output
TempFiles(files) ==
  { f \in files : f[1] \in { "__raw", "clip", "__audio", "output.mp4" } }

\* the client export failed while fetching, scaling, compositing or reading
ClientFailed ==
  /\ cli.pc = "settled" /\ cli.outcome = "rejected"
  /\ cli.error \in { FETCH_FAILED, EXEC_FAILED, READ_FAILED }

\* C18 (as specified): when the client export is rejected, every file it
\* wrote to the virtual filesystem has been deleted and its progress
\* listener has been removed.
C18_ClientReleasesAll ==
  ClientFailed => (TempFiles(cli.files) = {} /\ "progress" \notin cli.listeners)


\* the clip whose extraction was the k-th to start
StartedClip(k) == ClipAt(layers, srv.clips[srv.started[k]])

\* C19: on the server at most one extraction runs at a time, the extraction
\* of the next clip starts only after the one before has ended with success,
\* the clips are extracted by ascending startTime, and the composite runs only
\* after every extraction has ended.
C19_SequentialExtraction ==
  /\ Cardinality(srv.procs) <= 1
  /\ Len(srv.started) <= srv.tempClips + 1
  /\ srv.procs # {} => srv.procs = { srv.tempClips + 1 }
  /\ \A k \in DOMAIN srv.started :
       /\ srv.started[k] = k
       /\ k > 1 => StartedClip(k - 1).startTime <= StartedClip(k).startTime
  /\ srv.composite => (srv.procs = {} /\ srv.tempClips = Len(srv.clips)
                       /\ Len(srv.started) = Len(srv.clips))

\* the composite runs after two extractions, of which the first was the clip
\* of the second layer
C19_Witness ==
  /\ srv.composite /\ srv.tempClips = 2
  /\ StartedClip(1).id = "v2" /\ StartedClip(2).id = "v1"


TerminalStatus == { "done", "error" }

\* the last write of the run
LastWrite == db.log[Len(db.log)]

\* the writes of a run: 'processing' first, at most one terminal write, which
\* is the last write and is there once the route's handler has run; the
\* record holds what the last write of the run says
OneTerminalWrite ==
  db.log # << >> =>
    /\ db.log[1] = "processing"
    /\ \A k \in DOMAIN db.log :
         /\ k > 1 => db.log[k] # "processing"
         /\ db.log[k] \in TerminalStatus => k = Len(db.log)
    /\ (LastWrite \in TerminalStatus) = (srv.pc = "reported")
    /\ LastWrite \notin TerminalStatus => db.exportStatus = "processing"
    /\ LastWrite = "done" =>
         /\ srv.outcome = "resolved" /\ db.exportStatus = "done"
         /\ db.exportFile # "null" /\ db.exportProgress = 100
    /\ LastWrite = "error" =>
         /\ srv.outcome = "rejected" /\ db.exportStatus = "error"
         /\ db.exportFile = "null" /\ db.exportError = srv.error /\ db.exportError # ""

\* C20: every export started by POST /api/export/:projectId takes the
\* exportStatus from 'processing' to exactly one terminal value, 'done' with
\* exportFile set and exportProgress 100 or 'error' with exportError set, and
\* no progress write of the run follows its terminal write.
C20_OneTerminalStatus ==
  /\ []OneTerminalWrite
  /\ (db.exportStatus = "processing") ~> (db.exportStatus \in TerminalStatus)

\* an export with progress writes ended with 'done' after an earlier export
\* of the project had ended with 'error'
C20_Witness ==
  /\ srv.pc = "reported" /\ db.exportStatus = "done" /\ db.exportError # ""
  /\ \E k \in DOMAIN db.log : db.log[k] = "progress"


\* C22: within one export run any two consecutive persisted progress writes
\* are more than 1000 ms apart, however often onProgress is called.
C22_ProgressThrottled ==
  \A k \in DOMAIN db.times : k > 1 => db.times[k] - db.times[k - 1] > THROTTLE_MS

\* a run that has called onProgress five times and written three of them
C22_Witness == Len(srv.calls) = 5 /\ Len(db.times) = 3

\* the percents a run has passed to onProgress during a phase
PhaseCalls(phase) == SelectSeq(srv.calls, LAMBDA c : c.phase = phase)

C21_OneRunAtATime == ~(ActiveRun(srv) /\ ActiveRun(parked.run))


-----------------------------------------------------------------------------
(* Properties of the preview player.                                       *)

\* the total duration of the project being played
PlayDuration == getTotalDuration(loaded, layers, sourceVideoDuration)

\* a frame of the play loop ran while playing and computed a time
FrameComputed == player.playing /\ player'.now # player.now /\ player'.last.set

\* C24: while playing, a play-loop frame whose computed time is at or past
\* the total duration sets the current time to 0, switches to paused and
\* leaves no frame callback pending; a frame whose computed time is before
\* the total duration sets the current time to that time, so the loop never
\* sets a current time at or past the total duration
C24_StopAtEnd ==
  [][FrameComputed =>
       IF player'.last.time >= PlayDuration
       THEN currentTime' = 0 /\ ~player'.playing /\ player'.pending = {}
            /\ player'.animFrameId = 0
       ELSE currentTime' = Max(0, player'.last.time) /\ currentTime' < PlayDuration
            /\ player'.playing]_vars

\* a frame reached the end of the timeline exactly and playback stopped
C24_Witness ==
  /\ player.last.set /\ player.last.time = PlayDuration
  /\ ~player.playing /\ currentTime = 0 /\ player.pending = {}


\* the video clip the play loop finds active at the editor time of the frame
\* about to run: its own search without the look-ahead
ActiveVideo == FindVideo(layers, currentTime, 0)

\* the media position of the element when the next frame runs
MediaTimeAtFrame == advance(player.video, player'.now - player.now).currentTime

\* every video clip of the project shows the source the element holds, so
\* that no frame and no seek ever switches the source
OneSource ==
  \A r \in { ClipRefs(layers)[k] : k \in DOMAIN ClipRefs(layers) } :
    ClipAt(layers, r).type = "video" => ClipAt(layers, r).src = player.video.src

\* the media position cannot be trusted yet: the project has a second source
\* the element may just have been switched to, the element has no data of its
\* source, or it still reports a position well before the clip's source start
Untrusted(clip) ==
  \/ ~OneSource
  \/ ~player.video.ready
  \/ clip.startTime + (MediaTimeAtFrame - SrcTicks(clip.srcStart)) < clip.startTime - SEEK_GUARD

\* C25 (as specified): while playing, a frame advances the editor time by
\* the wall-clock delta only when no video clip is active at the current
\* time or the media position cannot yet be trusted; in every other frame
\* with an active video clip the new time is derived from the media element
\* as clip.startTime + (mediaTime - clip.srcStart), also after a gap.
\* Stated for the frames that can follow no source switch.
C25_TimerOnlyWithoutClip ==
  [][FrameComputed /\ ActiveVideo # << >> /\ ~Untrusted(ActiveVideo[1]) =>
       /\ player'.last.how = "derived"
       /\ player'.last.time =
            ActiveVideo[1].startTime + (MediaTimeAtFrame - SrcTicks(ActiveVideo[1].srcStart))]_vars

\* the case found: a frame inside a clip of the source already loaded, timed
\* by the wall clock because the element was paused in the gap before it
C25_TimerInsideClip ==
  /\ player.playing /\ player.last.how = "timer" /\ player.last.clip = "v2"
  /\ player.video.ready /\ player.video.paused /\ OneSource
  /\ FindVideo(layers, currentTime, 0) # << >>


\* the surface that plays: the player has no other
ActiveSurface == "videoEl"

\* the source each playback surface holds
SurfaceSrc(p) == [s \in Surfaces |-> p.video.src]

\* the source of the video clip with the given id
SrcOf(id) ==
  LET hits == SelectSeq(ClipRefs(layers), LAMBDA r : ClipAt(layers, r).id = id)
  IN  ClipAt(layers, Head(hits)).src

\* a frame of the play loop ran the boundary transition to a next clip
BoundaryFrame ==
  /\ player.playing /\ player'.now # player.now
  /\ player'.last.boundary /\ player'.last.next # NoId

\* C26 (as specified): at a clip boundary during playback the next clip's
\* source is already loaded in a second, inactive playback surface, which
\* takes over at the boundary; the active surface is not given the next
\* clip's source and sought directly.
C26_SwapAtBoundary ==
  [][BoundaryFrame =>
       /\ \E s \in Surfaces \ { ActiveSurface } :
            SurfaceSrc(player)[s] = SrcOf(player'.last.next)
       /\ ~player'.last.srcSet]_vars

\* the case found: at the end of v1 the one video element was given the
\* source of v2 and sought to its source start, and has no data of it yet
C26_DirectSeek ==
  /\ player.last.boundary /\ player.last.next = "v2" /\ player.last.srcSet
  /\ player.video.src = "b" /\ ~player.video.ready /\ player.playing


\* C27: at most one play-loop frame callback is pending at any time, and
\* none is pending while paused, whatever the order of play/pause toggles,
\* jumps to start and end, ruler seeks and end-of-timeline stops
C27_OnePendingFrame ==
  /\ Cardinality(player.pending) <= 1
  /\ ~player.playing => player.pending = {}

\* playback was paused and started again, and a frame of the second run is
\* the only one pending
C27_Witness ==
  /\ player.playing /\ player.now > 0 /\ player.lastTimestamp = 0
  /\ player.frames >= 3 /\ player.pending = { player.frames }


-----------------------------------------------------------------------------
(* Properties of the frame the preview draws.                              *)

IsFrame == plan.kind = "frame"

\* the video clips and the captions with text of visible layers whose
\* interval [startTime, endTime) holds t
ActiveIds(t) ==
  { ClipAt(layers, r).id : r \in
      { x \in { ClipRefs(layers)[k] : k \in DOMAIN ClipRefs(layers) } :
          LET clip == ClipAt(layers, x)
          IN  /\ layers[x.li].visible
              /\ clip.startTime <= t /\ t < clip.endTime
              /\ \/ clip.type = "video"
                 \/ clip.type = "subtitle" /\ clip.text # "" } }

\* the place of the clip with the given id
RefOf(id) == Head(SelectSeq(ClipRefs(layers), LAMBDA r : ClipAt(layers, r).id = id))

\* layers by ascending order value, the clips of a layer in array order
InDrawingOrder(ids) ==
  \A i, j \in DOMAIN ids :
    i < j => \/ layers[RefOf(ids[i]).li].order < layers[RefOf(ids[j]).li].order
             \/ RefOf(ids[i]).li = RefOf(ids[j]).li /\ RefOf(ids[i]).ci < RefOf(ids[j]).ci

Ids(seq) == { seq[i] : i \in DOMAIN seq }

\* C28 (as specified): renderFrame at time t draws exactly the video clips
\* and the non-empty subtitle clips of visible layers with
\* startTime <= t < endTime, layers by ascending order and clips in array
\* order, and records one hit-test bound per drawn clip in the same order.
C28_DrawsExactlyActive ==
  IsFrame =>
    /\ Ids(plan.painted) = ActiveIds(plan.t)
    /\ InDrawingOrder(plan.painted)
    /\ plan.bounds = plan.painted

\* C28 (amended): renderFrame at time t records one hit-test bound for each
\* video clip and each non-empty subtitle clip of a visible layer with
\* startTime <= t < endTime, layers by ascending order and clips in array
\* order; it draws them in that order, the video clips only when the video
\* element has a frame: until then a video clip has a bound and is not drawn.
C28_BoundsExactlyActive ==
  IsFrame =>
    /\ Ids(plan.bounds) = ActiveIds(plan.t)
    /\ InDrawingOrder(plan.bounds)
    /\ plan.painted = SelectSeq(plan.bounds, LAMBDA id :
                        ClipById(layers, id).type = "video" => plan.ready)
    /\ InDrawingOrder(plan.painted)

\* a frame of four clips of three layers whose order values differ from the
\* array order, drawn with the element ready; and a frame drawn before that
C28_Witness == 
  /\ IsFrame /\ plan.ready /\ plan.t = 75
  /\ plan.painted = << "s1", "s2", "v1", "v2" >>
  /\ plan.bounds = plan.painted

\* a frame with bounds of video clips that were not drawn
C28_BoundWithoutDraw ==
  /\ IsFrame /\ ~plan.ready
  /\ plan.bounds = << "s1", "s2", "v1", "v2" >> /\ plan.painted = << "s1", "s2" >>


-----------------------------------------------------------------------------
(* Properties of the spatial filter.                                       *)

IsFilter == plan.kind = "filter"

\* |a - b| <= 1
WithinOne(a, b) == ~NumLess(IntV(1), NumSub(a, b)) /\ ~NumLess(IntV(1), NumSub(b, a))

\* C29 (as specified): for fit=cover and a source of known size the scale
\* target width and height are even integers >= 2 for every clip position and
\* size, clips partly or wholly outside the output canvas included.
C29_EvenTargets ==
  IsFilter =>
    /\ IsEven(plan.fw) /\ plan.fw.n >= 2
    /\ IsEven(plan.fh) /\ plan.fh.n >= 2

\* the case found: a full-size clip half a pixel to the right, whose scale
\* target is 1078.5 wide
C29_FractionalTarget ==
  /\ IsFilter /\ plan.clip.x = Num(1, 2) /\ plan.clip.width = Undef
  /\ plan.fw = Num(2157, 2)

\* C30 (as specified): for fit=cover and a source of known size the rounded
\* crop width and height of the filter, multiplied by the cover scale factor,
\* differ from the scale target width and height by at most 1 pixel, for
\* every source size, clip size and clip position.
C30_CropMatchesTarget ==
  IsFilter =>
    /\ WithinOne(NumMul(plan.cropW, plan.sf), plan.fw)
    /\ WithinOne(NumMul(plan.cropH, plan.sf), plan.fh)

\* the case found: a 300x200 source under a full-canvas clip; the crop of
\* 113 source pixels scales to 1084.8, not 1080
C30_SmallSource ==
  /\ IsFilter /\ plan.clip.srcW = IntV(300) /\ plan.clip.srcH = IntV(200)
  /\ plan.clip.x = IntV(0) /\ plan.clip.y = IntV(0)
  /\ plan.clip.width = Undef /\ plan.clip.height = Undef
  /\ plan.fw = IntV(1080) /\ plan.cropW = IntV(113) /\ plan.sf = Num(48, 5)


-----------------------------------------------------------------------------
(* Properties of the drawtext stage.                                       *)

IsDrawtext == plan.kind = "drawtext"

\* what stands between the two quotes of the text option
QuotedText == SubSeq(plan.text, 2, Len(plan.text) - 1)

\* reading s from place i, a backslash taking the character after it: a
\* quote, a colon or a newline is met that no backslash has taken, a percent
\* stands alone, or the last backslash takes what follows the text
RECURSIVE Bare(_, _)
Bare(s, i) ==
  IF i > Len(s) THEN FALSE
  ELSE IF s[i] = BACKSLASH THEN (i = Len(s) \/ Bare(s, i + 2))
  ELSE IF s[i] \in { QUOTE, COLON, NEWLINE } THEN TRUE
  ELSE IF s[i] = PERCENT THEN (i = Len(s) \/ s[i + 1] # PERCENT \/ Bare(s, i + 2))
  ELSE Bare(s, i + 1)

\* C31 (as specified): for every subtitle text, every percent, single quote,
\* colon and newline of the text is escaped in the quoted text option of the
\* draw-text stage, so that no quote or colon of the text ends the quoted
\* text or starts a new option, also when the text holds backslashes.
C31_TextEscaped == IsDrawtext => ~Bare(QuotedText, 1)

\* the case found: the text \' is written as \\' , a backslash taken by a
\* backslash and then a quote that ends the quoted text
C31_QuoteAfterBackslash ==
  /\ IsDrawtext /\ plan.clip.text = << BACKSLASH, QUOTE >>
  /\ QuotedText = << BACKSLASH, BACKSLASH, QUOTE >>


\* widths the text may be drawn with, in pixels
TextWidths == { 100, 301 }

\* twice the x at which the stage draws the left edge of a text w wide
LeftEdge2(w) == 2 * plan.x.n - plan.shift * w

\* C32 (as specified): for a subtitle with declared anchor (x, y) the export
\* draws the text with its left edge at x for align=left, its right edge at
\* x for align=right and centred on x for align=center or unset, with its
\* top at y, for every declared x and y including 0.
C32_AnchoredAtXY ==
  IsDrawtext /\ plan.clip.x # Undef /\ plan.clip.y # Undef =>
    /\ plan.y = plan.clip.y
    /\ \A w \in TextWidths :
         IF plan.clip.align = "left" THEN LeftEdge2(w) = 2 * plan.clip.x.n
         ELSE IF plan.clip.align = "right" THEN LeftEdge2(w) + 2 * w = 2 * plan.clip.x.n
         ELSE LeftEdge2(w) + w = 2 * plan.clip.x.n

\* the case found: a centred caption anchored at x = 0 is drawn centred on
\* the middle of the canvas
C32_CentredAtZero ==
  /\ IsDrawtext /\ plan.clip.align = "center" /\ plan.clip.x = IntV(0)
  /\ plan.x = IntV(540) /\ plan.shift = 1


-----------------------------------------------------------------------------
(* Properties of removeClip, reorderLayers and the selectionChanged event, *)
(* checked under SpecModel.                                                *)

\* removeClip(layerId, clipId) was the last operation and the layer held the clip
RemovedClip ==
  /\ hist.op = "removeClip" /\ hist.pre.valid
  /\ getClip(hist.pre.m, hist.arg.layerId, hist.arg.clipId) # << 0, 0 >>

\* C33: removeClip(layerId, clipId) takes the clip out of that layer and
\* leaves every other clip and layer as it was; if the clip was the selected
\* one, the selected clip and the selected layer are both null afterwards;
\* if another clip or none was selected, the selection is as before
C33_RemoveClipSelection ==
  RemovedClip =>
    LET before == hist.pre.m
        li == getLayer(before, hist.arg.layerId)
    IN  /\ Len(layers) = Len(before.layers)
        /\ \A i \in DOMAIN layers :
             IF i = li
             THEN /\ layers[i].clips =
                       SelectSeq(before.layers[i].clips, LAMBDA c : c.id # hist.arg.clipId)
                  /\ \A j \in DOMAIN layers[i].clips : layers[i].clips[j].id # hist.arg.clipId
                  /\ [layers[i] EXCEPT !.clips = << >>] = [before.layers[i] EXCEPT !.clips = << >>]
             ELSE layers[i] = before.layers[i]
        /\ IF before.selClip = hist.arg.clipId
           THEN selectedClipId = NoId /\ selectedLayerId = NoId
           ELSE selectedClipId = before.selClip /\ selectedLayerId = before.selLayer

\* the selected clip was removed, and a clip was removed while another was selected
C33_Witness ==
  /\ RemovedClip /\ hist.pre.m.selClip = hist.arg.clipId
  /\ hist.pre.m.selLayer = hist.arg.layerId
  /\ selectedClipId = NoId /\ selectedLayerId = NoId


\* C37: whenever selectionChanged is emitted (selectClip, removeClip, undo,
\* redo), the payload (layerId, clipId) is the selected layer and the
\* selected clip the model holds at that moment
C37_PayloadIsSelection ==
  hist.emit.emitted =>
    /\ hist.emit.layerId = selectedLayerId
    /\ hist.emit.clipId = selectedClipId

\* removeClip took a clip out of a layer while another clip was selected
C37_RemovedUnselected ==
  /\ RemovedClip
  /\ hist.pre.m.selClip # NoId /\ hist.pre.m.selClip # hist.arg.clipId
  /\ selectedClipId = hist.pre.m.selClip
  /\ hist.emit = Emit(NoId, NoId)

\* the payload is the selection for every emitter but removeClip
C37_PayloadOfOthers ==
  hist.emit.emitted /\ hist.op # "removeClip" =>
    /\ hist.emit.layerId = selectedLayerId
    /\ hist.emit.clipId = selectedClipId


\* reorderLayers(orderedIds) was the last operation and orderedIds lists
\* every layer id of the project exactly once
ReorderedAll ==
  /\ hist.op = "reorderLayers" /\ hist.pre.valid /\ hist.pre.m.loaded
  /\ Len(hist.ids) = Len(hist.pre.m.layers)
  /\ { hist.ids[i] : i \in DOMAIN hist.ids } = LayerIds(hist.pre.m.layers)

\* C34: when orderedIds is a permutation of all N layer ids, reorderLayers
\* gives the i-th listed layer (counted from 0) the order N-1-i, so the first
\* listed layer has the highest order and is drawn last in the preview, and
\* no layer's clips (nor any other field of it) change
C34_ReorderByList ==
  ReorderedAll =>
    LET before == hist.pre.m.layers
        N == Len(hist.ids)
    IN  /\ Len(layers) = N
        /\ \A i \in 1..N :
             LET li == IndexOfId(layers, hist.ids[i])
             IN  /\ li # 0
                 /\ layers[li].order = N - 1 - (i - 1)
                 /\ [layers[li] EXCEPT !.order = 0] = [before[li] EXCEPT !.order = 0]
        /\ N > 0 =>
             LET top == IndexOfId(layers, hist.ids[1])
             IN  /\ \A j \in DOMAIN layers : j # top => layers[j].order < layers[top].order
                 /\ DrawPos(layers, top) = N

\* the layers were listed in an order that is not their order before
C34_Witness ==
  /\ ReorderedAll /\ Len(hist.ids) >= 2
  /\ layers # hist.pre.m.layers
  /\ DrawPos(layers, IndexOfId(layers, hist.ids[1])) = Len(layers)
  /\ DrawPos(hist.pre.m.layers, IndexOfId(layers, hist.ids[1])) # Len(layers)


-----------------------------------------------------------------------------
(* The crop rectangle of computeClipFilter, checked under SpecFilter.       *)

\* C36 (as specified): for fit=cover with known source dimensions the crop
\* rectangle lies inside the source frame after rounding:
\* round(cropX) + round(cropW) <= srcW and round(cropY) + round(cropH) <= srcH,
\* with crop width and height >= 1, for every clip position, clips partly off
\* the canvas included
C36_CropInsideSource ==
  IsFilter =>
    /\ ~NumLess(plan.cropW, IntV(1)) /\ ~NumLess(plan.cropH, IntV(1))
    /\ ~NumLess(plan.clip.srcW, NumAdd(plan.cropX, plan.cropW))
    /\ ~NumLess(plan.clip.srcH, NumAdd(plan.cropY, plan.cropH))

\* the case found: a full-size clip 2 pixels off to the left over a 270x480
\* source; the crop 270 wide starts at column 1
C36_PartlyOffCanvas ==
  /\ IsFilter /\ plan.clip.srcW = IntV(270) /\ plan.clip.srcH = IntV(480)
  /\ plan.clip.x = IntV(-2) /\ plan.clip.y = IntV(0)
  /\ plan.clip.width = Undef /\ plan.clip.height = Undef
  /\ plan.cropX = IntV(1) /\ plan.cropW = IntV(270)


-----------------------------------------------------------------------------
(* The clip a timeline drag leaves behind, checked under SpecTrim.          *)

\* a drag of a clip's handle has been released, the clip still in its layer
DragCompleted ==
  /\ hist.op = "onMouseUp"
  /\ getClip(Model, hist.arg.layerId, hist.arg.clipId) # << 0, 0 >>

DraggedClip ==
  LET at == getClip(Model, hist.arg.layerId, hist.arg.clipId)
  IN  layers[at[1]].clips[at[2]]

\* C35 (as specified): after a timeline drag gesture completes (move,
\* resize-start or resize-end, a dragged edge snapping to another clip's edge
\* included), the dragged clip has 0 <= startTime < endTime
C35_DragKeepsInterval ==
  DragCompleted =>
    /\ 0 <= DraggedClip.startTime
    /\ DraggedClip.startTime < DraggedClip.endTime

\* the case found: the left handle of the first half of a split clip, dragged
\* right until it snaps to the start of the second half
C35_EmptyAfterSnap ==
  /\ DragCompleted
  /\ DraggedClip.startTime = DraggedClip.endTime
  /\ \E c \in AllClips : c.id # DraggedClip.id /\ c.startTime = DraggedClip.endTime



-----------------------------------------------------------------------------
(* The history after a gesture that changes nothing, checked under SpecUI.  *)

\* a context-menu split or cut has run, or a button pressed on a clip of the
\* timeline or of the preview was released without the pointer having moved
GestureDone ==
  /\ hist.start.valid
  /\ \/ hist.op \in { "ctxsplit", "ctxcut" }
     \/ hist.op \in { "onMouseUp", "preview-onMouseUp" } /\ ~hist.moved

\* C38 (as specified): a user gesture that leaves the layer list unchanged (a
\* context-menu split or cut with the playhead not strictly inside the clip,
\* a press and release on a clip in the preview or the timeline without
\* movement) leaves the undo stack and the redo stack unchanged
C38_NoChangeNoSnapshot ==
  GestureDone /\ layers = hist.start.m.layers =>
    /\ undoStack = hist.start.m.undo
    /\ redoStack = hist.start.m.redo

\* the case found: a click on a clip of the timeline, after which the undo
\* stack holds one more snapshot, equal to the layer list
C38_ClickPushesSnapshot ==
  /\ GestureDone /\ hist.op = "onMouseUp"
  /\ layers = hist.start.m.layers
  /\ undoStack = Append(hist.start.m.undo, layers)


-----------------------------------------------------------------------------
(* The order values of the layers, checked under SpecLayers.                *)

\* C39 (as specified): in every state reached from a project with pairwise
\* distinct order values through addSubtitleLayer, addAudioLayer, a drop of a
\* clip into a new layer, removeLayer and reorderLayers, the order values of
\* the layers are pairwise distinct
C39_DistinctOrders ==
  \A i, j \in DOMAIN layers : i # j => layers[i].order # layers[j].order

\* the case found: a caption layer added after a layer was removed has the
\* order of a layer that is still there
C39_AddAfterRemove ==
  /\ hist.op = "addSubtitleLayer" /\ Len(layers) >= 2
  /\ Len(layers) = Len(hist.pre.m.layers) + 1
  /\ \E i \in 1..(Len(layers) - 1) : layers[i].order = layers[Len(layers)].order


-----------------------------------------------------------------------------
(* The answer of the status endpoint, checked under SpecExport.             *)

\* C40 (as specified): in every state of a project's export status, across
\* any sequence of successive exports, the status endpoint reports a non-null
\* error only while the status is 'error' and a non-null file only while the
\* status is 'done'
C40_ErrorAndFileMatchStatus ==
  LET answer == getStatus(db)
  IN  /\ answer.error # "null" => answer.status = "error"
      /\ answer.file # "null" => answer.status = "done"

\* the case found: an export that failed is followed by one that is running,
\* and the answer still carries the error of the first
C40_StaleError ==
  /\ getStatus(db).status = "processing"
  /\ getStatus(db).error # "null"
  /\ ActiveRun(srv)

\* the file alone is reported only while the status is 'done'
C40_FileOnlyWhenDone ==
  getStatus(db).file # "null" => getStatus(db).status = "done"

=============================================================================
